---- MODULE Spec2Model ----
(***************************************************************************)
(* A model of gocamo: the pixel-size reconciler of pkg/config, the five    *)
(* palette-driven generators of internal/generator, GeneratePattern with   *)
(* its output file, and the worker pool of cmd/gocamo and internal/worker. *)
(*                                                                         *)
(* Several specifications share one set of variables; each specification   *)
(* starts the variables it does not use at a fixed idle value and leaves   *)
(* them unchanged.                                                         *)
(*   SpecReconcile  Config.AdjustBasePixelSize applied to bounded inputs   *)
(*   SpecGen        one call of Generate of one of the five recipes        *)
(*   SpecPattern    one call of GeneratePattern, with its output file      *)
(*   SpecRun        run: the worker pool, its channels and its jobs        *)
(*   FairSpecRun    SpecRun in which a step that can be taken is taken     *)
(***************************************************************************)
EXTENDS Integers, Sequences, FiniteSets, TLC

VARIABLES
    cfg,                    \* the *config.Config of the call
    colors,                 \* []color.RGBA handed to Generate
    requested,              \* cfg.BasePixelSize as the caller set it
    adjustedBasePixelSize,  \* local of Generate / result of AdjustBasePixelSize
    grid,                   \* [][]int of colour indices: grid[y][x]
    img,                    \* *image.NRGBA: bounds and pixels Pix[y][x]
    pass,                   \* loop counter of the pass in progress
    pc,                     \* position of the call
    camo,                   \* the config.CamoColors handed to GeneratePattern
    ret,                    \* the error GeneratePattern returned
    files,                  \* the files of the output directory
    jobs,                   \* chan worker.Job of run
    results,                \* chan error of run
    wg,                     \* the sync.WaitGroup counter of run
    main,                   \* position of run
    workers,                \* the worker.Work goroutines
    gens,                   \* the generation goroutine of each job
    tracker,                \* the utils.TrackProgress goroutine
    heap,                   \* the Config objects the jobs point to
    hist,                   \* per job: times taken, results sent
    call                    \* a call of a function: its arguments and result

genVars == <<cfg, colors, requested, adjustedBasePixelSize, grid, img, pass, pc>>

callVars == <<camo, ret, files>>

poolVars == <<jobs, results, wg, main, workers, gens, tracker, heap, hist>>

fnVars == <<call>>

vars == <<genVars, callVars, poolVars, fnVars>>

genIdle == <<colors, grid, img, pass>>

\* the values of the variables a specification does not use
CallIdle == camo = <<>> /\ ret = "" /\ files = {}

PoolIdle ==
    /\ jobs = <<>> /\ results = <<>> /\ wg = 0 /\ main = "" /\ workers = <<>>
    /\ gens = <<>> /\ tracker = <<>> /\ heap = <<>> /\ hist = <<>>

FnIdle == call = <<>>

(***************************************************************************)
(* Bounds of the model.                                                    *)
(***************************************************************************)
MaxRcDim == 12      \* reconciler: width and height range over 1..MaxRcDim
MaxRcReq == 14      \* reconciler: requested block size ranges over -1..MaxRcReq

(***************************************************************************)
(* Program constants.                                                      *)
(***************************************************************************)
DefaultBasePixelSize == 4

(***************************************************************************)
(* Go integer arithmetic: / and % truncate toward zero.                    *)
(***************************************************************************)
abs(x) == IF x < 0 THEN -x ELSE x

GoDiv(a, b) == IF a >= 0 THEN a \div b ELSE -((-a) \div b)

GoMod(a, b) == a - b * GoDiv(a, b)

(***************************************************************************)
(* pkg/config: findCommonDivisors and AdjustBasePixelSize.                 *)
(***************************************************************************)
RECURSIVE gcd(_, _)
gcd(x, y) == IF y = 0 THEN x ELSE gcd(y, GoMod(x, y))

\* the divisor loop: for i := 1; i*i <= commonGCD; i++ { append i, commonGCD/i }
RECURSIVE DivisorLoop(_, _, _)
DivisorLoop(commonGCD, i, divisors) ==
    IF i * i > commonGCD THEN divisors
    ELSE IF GoMod(commonGCD, i) = 0
         THEN DivisorLoop(commonGCD, i + 1,
                          IF i # GoDiv(commonGCD, i)
                          THEN divisors \o <<i, GoDiv(commonGCD, i)>>
                          ELSE Append(divisors, i))
         ELSE DivisorLoop(commonGCD, i + 1, divisors)

\* the exchange sort of findCommonDivisors: position i receives the least
\* element of positions i..len
RECURSIVE SortAscending(_, _)
SortAscending(s, i) ==
    IF i >= Len(s) THEN s
    ELSE LET j == CHOOSE j \in i..Len(s) : \A k \in i..Len(s) : s[j] <= s[k]
             swapped == [s EXCEPT ![i] = s[j], ![j] = s[i]]
         IN  SortAscending(swapped, i + 1)

findCommonDivisors(a, b) ==
    IF a <= 0 \/ b <= 0 THEN <<1>>
    ELSE SortAscending(DivisorLoop(gcd(a, b), 1, <<>>), 1)

\* mutant of ClosestDivisor: a tie keeps the divisor found first
RECURSIVE ClosestDivisor_NoTieBreak(_, _, _, _, _)
ClosestDivisor_NoTieBreak(divs, k, base, bestDivisor, minDifference) ==
    IF k > Len(divs) THEN bestDivisor
    ELSE LET divisor == divs[k]
             difference == abs(base - divisor)
         IN  IF difference < minDifference
             THEN ClosestDivisor_NoTieBreak(divs, k + 1, base, divisor, difference)
             ELSE ClosestDivisor_NoTieBreak(divs, k + 1, base, bestDivisor,
                                            minDifference)

\* the selection loop of AdjustBasePixelSize over the sorted divisors
RECURSIVE ClosestDivisor(_, _, _, _, _)
ClosestDivisor(divs, k, base, bestDivisor, minDifference) ==
    IF k > Len(divs) THEN bestDivisor
    ELSE LET divisor == divs[k]
             difference == abs(base - divisor)
         IN  IF difference < minDifference
                \/ (difference = minDifference /\ divisor > bestDivisor)
             THEN ClosestDivisor(divs, k + 1, base, divisor, difference)
             ELSE ClosestDivisor(divs, k + 1, base, bestDivisor, minDifference)

\* cfg.BasePixelSize after the call: a non-positive request is overwritten
BaseAfterAdjust(c) ==
    IF c.BasePixelSize <= 0 THEN DefaultBasePixelSize ELSE c.BasePixelSize

\* mutant of AdjustBasePixelSize: the request is returned unreconciled
AdjustBasePixelSize_Unreconciled(c) == BaseAfterAdjust(c)

AdjustBasePixelSize(c) ==
    LET base == BaseAfterAdjust(c)
    IN  IF c.Width <= 0 \/ c.Height <= 0 THEN base
        ELSE IF GoMod(c.Width, base) = 0 /\ GoMod(c.Height, base) = 0 THEN base
        ELSE ClosestDivisor(findCommonDivisors(c.Width, c.Height), 1, base,
                            1, abs(base - 1))

(***************************************************************************)
(* Config values.                                                          *)
(***************************************************************************)
DefaultKValue == 4      \* the default of the -k flag

MkConfig(w, h, b, t, ratios) ==
    [Width |-> w, Height |-> h, BasePixelSize |-> b, PatternType |-> t,
     RatiosString |-> <<>>, ColorRatios |-> ratios, AddNoise |-> FALSE,
     AddEdge |-> FALSE, KValue |-> DefaultKValue]

(***************************************************************************)
(* SpecReconcile: AdjustBasePixelSize on every input of the bounded set,   *)
(* together with the two worked examples of the documentation.             *)
(***************************************************************************)
RcDims ==
    ((1..MaxRcDim) \X (1..MaxRcDim)) \cup {<<100, 100>>, <<101, 97>>}

RcInit ==
    /\ \E d \in RcDims, r \in (-1)..MaxRcReq :
          cfg = MkConfig(d[1], d[2], r, "pat1", <<>>)
    /\ requested = cfg.BasePixelSize
    /\ colors = <<>>
    /\ adjustedBasePixelSize = 0
    /\ grid = <<>>
    /\ img = <<>>
    /\ pass = 0
    /\ pc = "call"
    /\ CallIdle
    /\ PoolIdle
    /\ FnIdle

RcAdjust ==
    /\ pc = "call"
    /\ adjustedBasePixelSize' = AdjustBasePixelSize(cfg)
    /\ cfg' = [cfg EXCEPT !.BasePixelSize = BaseAfterAdjust(cfg)]
    /\ pc' = "adjusted"
    /\ UNCHANGED <<requested, genIdle>>
    /\ UNCHANGED <<callVars, poolVars, fnVars>>

RcNext == RcAdjust

SpecReconcile == RcInit /\ [][RcNext]_vars

(***************************************************************************)
(* Properties of the reconciler (SpecReconcile).                           *)
(***************************************************************************)
IsCommonDivisor(d) ==
    /\ d >= 1
    /\ cfg.Width % d = 0
    /\ cfg.Height % d = 0

\* C4: for every width >= 1, height >= 1 and every requested block size
\* (positive, zero or negative) the value returned by AdjustBasePixelSize is
\* at least 1 and divides both the width and the height.
C4_ReconciledTiles ==
    pc = "adjusted" => IsCommonDivisor(adjustedBasePixelSize)

\* a non-positive request was replaced by the default, which did not fit
C4_Witness ==
    /\ pc = "adjusted"
    /\ requested <= 0
    /\ adjustedBasePixelSize # DefaultBasePixelSize
    /\ adjustedBasePixelSize > 1

\* C5: for a requested block size r >= 1 the returned value is a common
\* divisor of width and height at minimum distance from r, and of two common
\* divisors equally close to r it is the larger; reconcile(100,100,4) = 4 and
\* reconcile(101,97,4) = 1.
C5_ClosestDivisor ==
    (pc = "adjusted" /\ requested >= 1) =>
        /\ IsCommonDivisor(adjustedBasePixelSize)
        /\ \A d \in 1..cfg.Width :
              IsCommonDivisor(d) =>
                 /\ abs(adjustedBasePixelSize - requested) <= abs(d - requested)
                 /\ abs(d - requested) = abs(adjustedBasePixelSize - requested)
                       => d <= adjustedBasePixelSize
        /\ (cfg.Width = 100 /\ cfg.Height = 100 /\ requested = 4)
              => adjustedBasePixelSize = 4
        /\ (cfg.Width = 101 /\ cfg.Height = 97 /\ requested = 4)
              => adjustedBasePixelSize = 1

\* a tie: another common divisor is as close to the request as the result
C5_Witness ==
    /\ pc = "adjusted"
    /\ requested >= 1
    /\ \E d \in 1..cfg.Width :
          /\ IsCommonDivisor(d)
          /\ d < adjustedBasePixelSize
          /\ abs(d - requested) = abs(adjustedBasePixelSize - requested)

(***************************************************************************)
(* Palettes, ratio vectors and the weighted colour selector.               *)
(*                                                                         *)
(* A colour is a color.RGBA value.  A ratio vector []float64 is kept as    *)
(* integer weights w over a common denominator d: entry i is w[i]/d.  A    *)
(* draw of rand.Float64() is k/(2d) for k in 0..2d-1, so that every        *)
(* interval between two cumulative sums holds a draw.                      *)
(***************************************************************************)
PaletteColor(i) ==
    [R |-> (i * 97) % 256, G |-> (i * 57 + 31) % 256,
     B |-> (1000 - i * 40) % 256, A |-> 255]

Palette(n) == [i \in 1..n |-> PaletteColor(i)]

NilRatios == [w |-> <<>>, d |-> 1]

\* parseColorRatios with an empty ratios string: numColors entries 1/numColors
EqualRatios(numColors) == [w |-> [i \in 1..numColors |-> 1], d |-> numColors]

RECURSIVE SumTo(_, _)
SumTo(w, i) == IF i = 0 THEN 0 ELSE w[i] + SumTo(w, i - 1)

\* with d = 0 (kept ratios that are all zero, divided by their total) every
\* entry is NaN and one draw stands for all
Draws(ratios) == IF ratios.d > 0 THEN 0..(2 * ratios.d - 1) ELSE {0}

\* r <= cumulative after adding entry i, for the draw r = k/(2d)
\* a comparison with NaN is false
DrawWithin(ratios, k, i) == ratios.d > 0 /\ k <= 2 * SumTo(ratios.w, i)

\* selectWeightedColor without the comparisons against maxColors
selectWeightedColor_Unclamped(ratios, maxColors, k) ==
    LET n == Len(ratios.w)
        hits == {i \in 1..n : DrawWithin(ratios, k, i)}
    IN  IF n = 0 \/ maxColors = 0 THEN 0
        ELSE IF n = 1 THEN 0
        ELSE IF hits # {}
             THEN (CHOOSE j \in hits : \A h \in hits : j <= h) - 1
             ELSE n - 1

selectWeightedColor(ratios, maxColors, k) ==
    LET n == Len(ratios.w)
        hits == {i \in 1..n : DrawWithin(ratios, k, i)}
    IN  IF n = 0 \/ maxColors = 0 THEN 0
        ELSE IF n = 1 THEN 0
        ELSE IF hits # {}
             THEN LET i == (CHOOSE j \in hits : \A h \in hits : j <= h) - 1
                  IN  IF i >= maxColors THEN maxColors - 1 ELSE i
             ELSE IF n - 1 >= maxColors THEN maxColors - 1 ELSE n - 1

\* every index selectWeightedColor can return over the draws
WeightedColors(ratios, maxColors) ==
    {selectWeightedColor(ratios, maxColors, k) : k \in Draws(ratios)}

(***************************************************************************)
(* Grids and images.                                                       *)
(***************************************************************************)
Cells(w, h) == (0..(h - 1)) \X (0..(w - 1))

\* the cells in the order of "for y { for x {" loops; none when a bound is
\* not positive
CellSeq(w, h) ==
    [i \in 1..(IF w > 0 /\ h > 0 THEN w * h ELSE 0) |->
        <<(i - 1) \div w, (i - 1) % w>>]

\* make([][]int, h) with rows make([]int, w)
NewGrid(w, h) == [y \in 0..(h - 1) |-> [x \in 0..(w - 1) |-> 0]]

cellWidth == GoDiv(cfg.Width, adjustedBasePixelSize)
cellHeight == GoDiv(cfg.Height, adjustedBasePixelSize)

Transparent == [R |-> 0, G |-> 0, B |-> 0, A |-> 0]

\* an image allocated with its sides exchanged
NewNRGBA_Transposed(w, h) ==
    [Dx |-> h, Dy |-> w,
     Pix |-> [y \in 0..(w - 1) |-> [x \in 0..(h - 1) |-> Transparent]]]

\* image.NewNRGBA(image.Rect(0, 0, w, h))
NewNRGBA(w, h) ==
    [Dx |-> w, Dy |-> h,
     Pix |-> [y \in 0..(h - 1) |-> [x \in 0..(w - 1) |-> Transparent]]]

\* color.NRGBAModel.Convert of a color.RGBA, as (*NRGBA).Set applies it:
\* RGBA() widens a channel to 16 bits (c * 0x101); an opaque colour keeps
\* its channels, a transparent one becomes zero, any other is divided by
\* its alpha ((c*0x101 * 0xffff) / (a*0x101) = (c * 0xffff) / a).
NRGBAModel(c) ==
    IF c.A = 255
    THEN [R |-> (c.R * 257) \div 256, G |-> (c.G * 257) \div 256,
          B |-> (c.B * 257) \div 256, A |-> 255]
    ELSE IF c.A = 0 THEN Transparent
    ELSE [R |-> ((c.R * 65535) \div c.A) \div 256,
          G |-> ((c.G * 65535) \div c.A) \div 256,
          B |-> ((c.B * 65535) \div c.A) \div 256,
          A |-> (c.A * 257) \div 256]

\* the grids of gs with each cell of cs given, in turn, every value of
\* poss[cell]
RECURSIVE ChoicesFrom(_, _, _)
ChoicesFrom(gs, cs, poss) ==
    IF cs = <<>> THEN gs
    ELSE ChoicesFrom({[g EXCEPT ![Head(cs)[1]][Head(cs)[2]] = v] :
                         g \in gs, v \in poss[Head(cs)]},
                     Tail(cs), poss)

\* one grid for every way of giving each cell of cs a value of poss[cell]
Choices(g, cs, poss) == ChoicesFrom({g}, cs, poss)

(***************************************************************************)
(* The neighbourhood vote of the cellular-automaton passes.                *)
(*                                                                         *)
(* colorCount is a Go map: ranging over it visits the keys in an           *)
(* unspecified order, here a sequence `order`; tie[c] is the outcome of    *)
(* the draw rand.Float32() < 0.3 made when key c is visited.               *)
(***************************************************************************)
RECURSIVE PermSeqs(_)
PermSeqs(S) ==
    IF S = {} THEN {<<>>}
    ELSE UNION {{<<e>> \o t : t \in PermSeqs(S \ {e})} : e \in S}

\* the toroidal tally of pat3 and pat4 over radius r around <<y, x>>
WrapCount(g, y, x, r, w, h) ==
    LET at(d) == g[GoMod(y + d[1] + h, h)][GoMod(x + d[2] + w, w)]
        offs == ((-r)..r) \X ((-r)..r)
        keys == {at(d) : d \in offs}
    IN  [c \in keys |-> Cardinality({d \in offs : at(d) = c})]

\* a vote that ignores the tally and selects colour 0
MostCommonTie_Zero(cnt, order, tie, i, maxCount, maxColor) == 0

\* a vote that selects the colour visited last, whatever its count
MostCommonTie_Last(cnt, order, tie, i, maxCount, maxColor) ==
    IF Len(order) = 0 THEN maxColor ELSE order[Len(order)]

\* for color, count := range colorCount {
\*   if count > maxCount || (count == maxCount && rand.Float32() < 0.3) {..}}
RECURSIVE MostCommonTie(_, _, _, _, _, _)
MostCommonTie(cnt, order, tie, i, maxCount, maxColor) ==
    IF i > Len(order) THEN maxColor
    ELSE LET color == order[i]
             count == cnt[color]
         IN  IF count > maxCount \/ (count = maxCount /\ tie[color])
             THEN MostCommonTie(cnt, order, tie, i + 1, count, color)
             ELSE MostCommonTie(cnt, order, tie, i + 1, maxCount, maxColor)

\* every colour the vote can select, over map orders and tie draws
VoteTie(cnt, start) ==
    {MostCommonTie(cnt, order, tie, 1, 0, start) :
        order \in PermSeqs(DOMAIN cnt), tie \in [DOMAIN cnt -> BOOLEAN]}

(***************************************************************************)
(* Rendering: every pixel takes the colour of the cell that owns it.       *)
(***************************************************************************)
\* a draw loop that takes the cell at the pixel's coordinates reduced
\* modulo the grid, not divided by the block size
RenderCells_Unscaled(im, g, cols, pixelSize, w, h) ==
    [im EXCEPT !.Pix =
        [y \in DOMAIN im.Pix |-> [x \in DOMAIN im.Pix[y] |->
            NRGBAModel(cols[g[GoMod(y, h)][GoMod(x, w)] + 1])]]]

\* the draw loops of pat1, pat2 and pat3
RenderCells(im, g, cols, pixelSize, w, h) ==
    [im EXCEPT !.Pix =
        [y \in DOMAIN im.Pix |-> [x \in DOMAIN im.Pix[y] |->
            LET cellY == GoDiv(y, pixelSize)
                cellX == GoDiv(x, pixelSize)
            IN  IF cellY < h /\ cellX < w
                THEN NRGBAModel(cols[g[cellY][cellX] + 1])
                ELSE im.Pix[y][x]]]]

\* colors[grid[cellY][cellX]] is an index expression: an index outside the
\* palette aborts the call
RenderAborts(g, cols) ==
    \E y \in DOMAIN g : \E x \in DOMAIN g[y] : g[y][x] < 0 \/ g[y][x] >= Len(cols)

(***************************************************************************)
(* pat4: weighted initialisation, three toroidal automaton passes.         *)
(***************************************************************************)
Pat4Iterations == 3

Pat4PassGrids(g, w, h) ==
    Choices(g, CellSeq(w, h),
            [c \in Cells(w, h) |->
                VoteTie(WrapCount(g, c[1], c[2], 1, w, h), g[c[1]][c[2]])])

\* the draw loop of pat4 wraps the cell coordinates
RenderPat4(im, g, cols, pixelSize, w, h) ==
    [im EXCEPT !.Pix =
        [y \in DOMAIN im.Pix |-> [x \in DOMAIN im.Pix[y] |->
            LET patternY == GoMod(GoDiv(y, pixelSize), h)
                patternX == GoMod(GoDiv(x, pixelSize), w)
            IN  NRGBAModel(cols[g[patternY][patternX] + 1])]]]

Pat4Begin ==
    /\ pc = "call"
    /\ cfg.PatternType = "pat4"
    /\ LET adj == AdjustBasePixelSize(cfg)
           w == GoDiv(cfg.Width, adj)
           h == GoDiv(cfg.Height, adj)
       IN  /\ adjustedBasePixelSize' = adj
           /\ cfg' = [cfg EXCEPT !.BasePixelSize = BaseAfterAdjust(cfg)]
           /\ img' = NewNRGBA(cfg.Width, cfg.Height)
           /\ grid' \in Choices(NewGrid(w, h), CellSeq(w, h),
                                [c \in Cells(w, h) |->
                                    WeightedColors(cfg.ColorRatios, Len(colors))])
    /\ pass' = 0
    /\ pc' = "automaton"
    /\ UNCHANGED <<colors, requested>>
    /\ UNCHANGED <<callVars, poolVars, fnVars>>

Pat4Automaton ==
    /\ pc = "automaton"
    /\ cfg.PatternType = "pat4"
    /\ pass < Pat4Iterations
    /\ grid' \in Pat4PassGrids(grid, cellWidth, cellHeight)
    /\ pass' = pass + 1
    /\ UNCHANGED <<cfg, colors, requested, adjustedBasePixelSize, img, pc>>
    /\ UNCHANGED <<callVars, poolVars, fnVars>>

Pat4Render ==
    /\ pc = "automaton"
    /\ cfg.PatternType = "pat4"
    /\ pass = Pat4Iterations
    /\ IF RenderAborts(grid, colors)
       THEN pc' = "panic" /\ UNCHANGED img
       ELSE /\ img' = RenderPat4(img, grid, colors, adjustedBasePixelSize,
                                 cellWidth, cellHeight)
            /\ pc' = "rendered"
    /\ UNCHANGED <<cfg, colors, requested, adjustedBasePixelSize, grid, pass>>
    /\ UNCHANGED <<callVars, poolVars, fnVars>>

(***************************************************************************)
(* pat3: weighted initialisation, three automaton passes with a radius of  *)
(* 1 or 2 drawn per cell and a 70% chance of applying the vote, then       *)
(* squares and rectangles stamped at every fourth cell.                    *)
(***************************************************************************)
Pat3Iterations == 3
Pat3MaxSize == 8

Pat3PassGrids(g, w, h) ==
    Choices(g, CellSeq(w, h),
            [c \in Cells(w, h) |->
                {g[c[1]][c[2]]}
                \cup UNION {VoteTie(WrapCount(g, c[1], c[2], r, w, h), g[c[1]][c[2]]) :
                               r \in 1..2}])

\* width and height of a shape, by shape type 0, 1, 2
Pat3ShapeSizes ==
    LET half == GoDiv(Pat3MaxSize, 2)
    IN  ((1..Pat3MaxSize) \X (1..Pat3MaxSize))
        \cup ((half..(Pat3MaxSize - 1 + half)) \X (1..half))
        \cup ((1..half) \X (half..(Pat3MaxSize - 1 + half)))

\* the fill loops, clipped at the grid: rows y..y+height-1, columns x..x+width-1
Pat3Fill(g, y, x, width, height) ==
    [cy \in DOMAIN g |-> [cx \in DOMAIN g[cy] |->
        IF cy >= y /\ cy < y + height /\ cx >= x /\ cx < x + width
        THEN g[y][x] ELSE g[cy][cx]]]

\* for y := 0; y < cellHeight; y += maxSize/2 { for x := 0; x < cellWidth; .. }
Pat3Anchors(w, h) ==
    LET step == GoDiv(Pat3MaxSize, 2)
        nx == (w + step - 1) \div step
        ny == (h + step - 1) \div step
    IN  [i \in 1..(nx * ny) |-> <<((i - 1) \div nx) * step, ((i - 1) % nx) * step>>]

Min(a, b) == IF a < b THEN a ELSE b

\* the grids after the anchors from position i on, starting from the set gs
RECURSIVE Pat3ShapeGrids(_, _, _, _, _)
Pat3ShapeGrids(gs, anchors, i, w, h) ==
    IF i > Len(anchors) THEN gs
    ELSE LET y == anchors[i][1]
             x == anchors[i][2]
             clipped == {<<Min(sz[1], w - x), Min(sz[2], h - y)>> : sz \in Pat3ShapeSizes}
             next == gs \cup {Pat3Fill(g, y, x, sz[1], sz[2]) : g \in gs, sz \in clipped}
         IN  Pat3ShapeGrids(next, anchors, i + 1, w, h)

Pat3Begin ==
    /\ pc = "call"
    /\ cfg.PatternType = "pat3"
    /\ LET adj == AdjustBasePixelSize(cfg)
           w == GoDiv(cfg.Width, adj)
           h == GoDiv(cfg.Height, adj)
       IN  /\ adjustedBasePixelSize' = adj
           /\ cfg' = [cfg EXCEPT !.BasePixelSize = BaseAfterAdjust(cfg)]
           /\ img' = NewNRGBA(cfg.Width, cfg.Height)
           /\ grid' \in Choices(NewGrid(w, h), CellSeq(w, h),
                                [c \in Cells(w, h) |->
                                    WeightedColors(cfg.ColorRatios, Len(colors))])
    /\ pass' = 0
    /\ pc' = "automaton"
    /\ UNCHANGED <<colors, requested>>
    /\ UNCHANGED <<callVars, poolVars, fnVars>>

Pat3Automaton ==
    /\ pc = "automaton"
    /\ cfg.PatternType = "pat3"
    /\ pass < Pat3Iterations
    /\ grid' \in Pat3PassGrids(grid, cellWidth, cellHeight)
    /\ pass' = pass + 1
    /\ UNCHANGED <<cfg, colors, requested, adjustedBasePixelSize, img, pc>>
    /\ UNCHANGED <<callVars, poolVars, fnVars>>

Pat3Shapes ==
    /\ pc = "automaton"
    /\ cfg.PatternType = "pat3"
    /\ pass = Pat3Iterations
    /\ grid' \in Pat3ShapeGrids({grid}, Pat3Anchors(cellWidth, cellHeight), 1,
                                cellWidth, cellHeight)
    /\ pc' = "render"
    /\ UNCHANGED <<cfg, colors, requested, adjustedBasePixelSize, img, pass>>
    /\ UNCHANGED <<callVars, poolVars, fnVars>>

Pat3Render ==
    /\ pc = "render"
    /\ cfg.PatternType = "pat3"
    /\ IF RenderAborts(grid, colors)
       THEN pc' = "panic" /\ UNCHANGED img
       ELSE /\ img' = RenderCells(img, grid, colors, adjustedBasePixelSize,
                                  cellWidth, cellHeight)
            /\ pc' = "rendered"
    /\ UNCHANGED <<cfg, colors, requested, adjustedBasePixelSize, grid, pass>>
    /\ UNCHANGED <<callVars, poolVars, fnVars>>

(***************************************************************************)
(* pat5: hash-noise initialisation, two clustering passes (block stamping  *)
(* followed by the light automaton), texture noise.                        *)
(*                                                                         *)
(* digitalNoise masks its result with 0x7fffffff, so only the low 31 bits  *)
(* of the 64-bit products matter: the hash is computed modulo 2^31 with    *)
(* operations whose intermediate values stay below 2^31.                   *)
(***************************************************************************)
Mask31 == 2147483647

AddMod31(a, b) ==
    IF b = 0 THEN a
    ELSE LET c == (Mask31 - b) + 1      \* 2^31 - b
         IN  IF a >= c THEN a - c ELSE a + b

RECURSIVE MulMod31(_, _)
MulMod31(a, b) ==
    IF b = 0 THEN 0
    ELSE LET rest == MulMod31(AddMod31(a, a), b \div 2)
         IN  IF b % 2 = 1 THEN AddMod31(rest, a) ELSE rest

RECURSIVE Xor(_, _)
Xor(a, b) ==
    IF a = 0 THEN b
    ELSE IF b = 0 THEN a
    ELSE 2 * Xor(a \div 2, b \div 2) + (((a % 2) + (b % 2)) % 2)

\* the masked integer of digitalNoise(float64(x)*0.3, float64(y)*0.3):
\* int(float64(x)*0.3) is 3x/10 for every x below 3000; the result of
\* digitalNoise is this integer / 2^30 - 1
digitalNoise(x, y) ==
    LET xi == ((3 * x) \div 10) % 256
        yi == ((3 * y) \div 10) % 256
        n0 == xi + yi * 57
        n == Xor(n0 * 8192, n0)
        nn == MulMod31(n, n)
        inner == AddMod31(MulMod31(nn, 15731), 789221)
    IN  AddMod31(MulMod31(n, inner), 1376312589)

\* floor(num * 2^31 / den) for 0 <= num < den, by binary long division
RECURSIVE ShiftDiv(_, _, _, _)
ShiftDiv(rem, den, bits, acc) ==
    IF bits = 0 THEN acc
    ELSE LET r2 == 2 * rem
         IN  IF r2 >= den THEN ShiftDiv(r2 - den, den, bits - 1, 2 * acc + 1)
             ELSE ShiftDiv(r2, den, bits - 1, 2 * acc)

\* noise <= cumulative, for noise = hash/2^31 and cumulative = cum/den
NoiseWithin(hash, cum, den) ==
    IF cum >= den THEN TRUE ELSE hash <= ShiftDiv(cum, den, 31, 0)

getMARPATColorRatios(numColors) ==
    IF numColors = 4 THEN [w |-> <<45, 30, 15, 10>>, d |-> 100]
    ELSE IF numColors = 3 THEN [w |-> <<50, 35, 15>>, d |-> 100]
    ELSE EqualRatios(numColors)

noiseToColorIndex(hash, colorRatios, numColors) ==
    LET ratios == IF Len(colorRatios.w) = 0 \/ Len(colorRatios.w) # numColors
                  THEN getMARPATColorRatios(numColors) ELSE colorRatios
        hits == {i \in 1..Len(ratios.w) :
                    NoiseWithin(hash, SumTo(ratios.w, i), ratios.d)}
    IN  IF hits # {} THEN (CHOOSE j \in hits : \A h \in hits : j <= h) - 1
        ELSE numColors - 1

initializeDigitalPixelBase(w, h, numColors, colorRatios) ==
    LET ratios == IF Len(colorRatios.w) = 0 \/ Len(colorRatios.w) # numColors
                  THEN getMARPATColorRatios(numColors) ELSE colorRatios
    IN  [y \in 0..(h - 1) |-> [x \in 0..(w - 1) |->
            noiseToColorIndex(digitalNoise(x, y), ratios, numColors)]]

Pat5ClusterPasses == 2

\* the block a cell stamps: 2x1, 1x2 or 2x2 in the colour of grid[y][x]
Pat5Block(g, y, x, blockType, w, h) ==
    LET baseColor == g[y][x]
    IN  IF blockType = 0
        THEN IF x + 1 < w THEN [g EXCEPT ![y][x + 1] = baseColor] ELSE g
        ELSE IF blockType = 1
        THEN IF y + 1 < h THEN [g EXCEPT ![y + 1][x] = baseColor] ELSE g
        ELSE IF x + 1 < w /\ y + 1 < h
             THEN [g EXCEPT ![y][x + 1] = baseColor, ![y + 1][x] = baseColor,
                            ![y + 1][x + 1] = baseColor]
             ELSE g

\* the stamping loops run over y < height-1, x < width-1 and write in place
RECURSIVE Pat5BlockGrids(_, _, _, _)
Pat5BlockGrids(gs, cs, w, h) ==
    IF cs = <<>> THEN gs
    ELSE Pat5BlockGrids(
            gs \cup {Pat5Block(g, Head(cs)[1], Head(cs)[2], t, w, h) :
                        g \in gs, t \in 0..2},
            Tail(cs), w, h)

\* the tally of applyLightCellularAutomata: the four neighbours inside the
\* grid, and the cell itself
CrossCount(g, y, x, w, h) ==
    LET offs == {d \in {<<0, -1>>, <<-1, 0>>, <<1, 0>>, <<0, 1>>, <<0, 0>>} :
                    /\ x + d[1] >= 0 /\ x + d[1] < w
                    /\ y + d[2] >= 0 /\ y + d[2] < h}
        at(d) == g[y + d[2]][x + d[1]]
        keys == {at(d) : d \in offs}
    IN  [c \in keys |-> Cardinality({d \in offs : at(d) = c})]

\* for color, count := range colorCounts { if count > maxCount { .. } }
VoteFirst(cnt, start) ==
    {MostCommonTie(cnt, order, [c \in DOMAIN cnt |-> FALSE], 1, 0, start) :
        order \in PermSeqs(DOMAIN cnt)}

MaxCount(cnt) == CHOOSE m \in {cnt[c] : c \in DOMAIN cnt} :
                    \A c \in DOMAIN cnt : cnt[c] <= m

applyLightCellularAutomata(g, w, h) ==
    Choices(g, CellSeq(w, h),
            [c \in Cells(w, h) |->
                LET cnt == CrossCount(g, c[1], c[2], w, h)
                IN  {g[c[1]][c[2]]}
                    \cup (IF MaxCount(cnt) >= 3 THEN VoteFirst(cnt, g[c[1]][c[2]])
                          ELSE {})])

applyMARPATPixelClusteringPass(g, w, h) ==
    UNION {applyLightCellularAutomata(g1, w, h) :
              g1 \in Pat5BlockGrids({g}, CellSeq(w - 1, h - 1), w, h)}

\* a cell keeps its colour or takes rand.Intn(numColors)
addDigitalTextureNoise(g, w, h, numColors) ==
    Choices(g, CellSeq(w, h),
            [c \in Cells(w, h) |-> {g[c[1]][c[2]]} \cup 0..(numColors - 1)])

\* renderGrid skips a pixel whose cell or colour index is out of range
renderGrid(im, g, cols, pixelSize) ==
    [im EXCEPT !.Pix =
        [y \in DOMAIN im.Pix |-> [x \in DOMAIN im.Pix[y] |->
            LET gridX == GoDiv(x, pixelSize)
                gridY == GoDiv(y, pixelSize)
            IN  IF gridY \in DOMAIN g /\ gridX \in DOMAIN g[gridY]
                   /\ g[gridY][gridX] >= 0 /\ g[gridY][gridX] < Len(cols)
                THEN NRGBAModel(cols[g[gridY][gridX] + 1])
                ELSE im.Pix[y][x]]]]

Pat5Begin ==
    /\ pc = "call"
    /\ cfg.PatternType = "pat5"
    /\ LET adj == AdjustBasePixelSize(cfg)
           w == GoDiv(cfg.Width, adj)
           h == GoDiv(cfg.Height, adj)
       IN  /\ adjustedBasePixelSize' = adj
           /\ cfg' = [cfg EXCEPT !.BasePixelSize = BaseAfterAdjust(cfg)]
           /\ img' = NewNRGBA(cfg.Width, cfg.Height)
           /\ grid' = initializeDigitalPixelBase(w, h, Len(colors), cfg.ColorRatios)
    /\ pass' = 0
    /\ pc' = "cluster"
    /\ UNCHANGED <<colors, requested>>
    /\ UNCHANGED <<callVars, poolVars, fnVars>>

Pat5Cluster ==
    /\ pc = "cluster"
    /\ cfg.PatternType = "pat5"
    /\ pass < Pat5ClusterPasses
    /\ grid' \in applyMARPATPixelClusteringPass(grid, cellWidth, cellHeight)
    /\ pass' = pass + 1
    /\ UNCHANGED <<cfg, colors, requested, adjustedBasePixelSize, img, pc>>
    /\ UNCHANGED <<callVars, poolVars, fnVars>>

Pat5Texture ==
    /\ pc = "cluster"
    /\ cfg.PatternType = "pat5"
    /\ pass = Pat5ClusterPasses
    /\ grid' \in addDigitalTextureNoise(grid, cellWidth, cellHeight, Len(colors))
    /\ pc' = "render"
    /\ UNCHANGED <<cfg, colors, requested, adjustedBasePixelSize, img, pass>>
    /\ UNCHANGED <<callVars, poolVars, fnVars>>

Pat5Render ==
    /\ pc = "render"
    /\ cfg.PatternType = "pat5"
    /\ img' = renderGrid(img, grid, colors, adjustedBasePixelSize)
    /\ pc' = "rendered"
    /\ UNCHANGED <<cfg, colors, requested, adjustedBasePixelSize, grid, pass>>
    /\ UNCHANGED <<callVars, poolVars, fnVars>>

(***************************************************************************)
(* pat1: a background colour, three layers of shapes whose number grows    *)
(* with the number of cells, two smoothing passes over the interior.       *)
(*                                                                         *)
(* rand.Intn(n) panics when n <= 0; a layer that makes such a call aborts  *)
(* the call of Generate.                                                   *)
(***************************************************************************)
IntnPanics(n) == n <= 0

\* the indices below maxColors, excluded or not
IndexMap_KeepExcluded(ratios, excludeIndices, maxColors) ==
    SelectSeq([i \in 1..Len(ratios.w) |-> i - 1], LAMBDA i : i < maxColors)

\* the indices kept by selectWeightedColorExcluding, in order
IndexMap(ratios, excludeIndices, maxColors) ==
    SelectSeq([i \in 1..Len(ratios.w) |-> i - 1],
              LAMBDA i : i < maxColors /\ i \notin excludeIndices)

\* the kept ratios divided by their total
AdjustedRatios(ratios, excludeIndices, maxColors) ==
    LET indexMap == IndexMap(ratios, excludeIndices, maxColors)
        w == [j \in 1..Len(indexMap) |-> ratios.w[indexMap[j] + 1]]
    IN  [w |-> w, d |-> SumTo(w, Len(w))]

selectWeightedColorExcluding(ratios, excludeIndices, maxColors, k) ==
    LET indexMap == IndexMap(ratios, excludeIndices, maxColors)
        adjustedRatios == AdjustedRatios(ratios, excludeIndices, maxColors)
    IN  IF Len(ratios.w) = 0 \/ maxColors = 0 THEN 0
        ELSE IF Len(indexMap) = 0 THEN 0
        ELSE indexMap[selectWeightedColor(adjustedRatios, Len(indexMap), k) + 1]

WeightedColorsExcluding(ratios, excludeIndices, maxColors) ==
    {selectWeightedColorExcluding(ratios, excludeIndices, maxColors, k) :
        k \in Draws(AdjustedRatios(ratios, excludeIndices, maxColors))}

\* for y := y0; y < y0+ht && y < h { for x := x0; x < x0+wd && x < w {
\*   if x >= 0 && y >= 0 { grid[y][x] = c } } }
FillRect(g, x0, y0, wd, ht, c, w, h) ==
    [y \in DOMAIN g |-> [x \in DOMAIN g[y] |->
        IF /\ y >= y0 /\ y < y0 + ht /\ y < h
           /\ x >= x0 /\ x < x0 + wd /\ x < w
        THEN c ELSE g[y][x]]]

Pat1ShapeDivisor == 200
Pat1ElementDivisor == 100
Pat1PixelDivisor == 50

\* drawOrganicShape: a cell inside the grid is painted when distance <=
\* threshold and a draw falls below 1 - distance/threshold, the threshold
\* being drawn in [0.85, 1.15): the centre always is, a cell at distance
\* below 1.15 may be, any other is not.  distance is
\* (dx/sizeX)^2 + (dy/sizeY)^2, compared here in integers.
drawOrganicShape(g, centerX, centerY, sizeX, sizeY, colorIndex, w, h) ==
    Choices(g, CellSeq(w, h),
        [c \in Cells(w, h) |->
            LET dx == c[2] - centerX
                dy == c[1] - centerY
            IN  IF dx = 0 /\ dy = 0 THEN {colorIndex}
                ELSE IF /\ abs(dx) <= sizeX /\ abs(dy) <= sizeY
                        /\ 100 * (dx * dx * sizeY * sizeY + dy * dy * sizeX * sizeX)
                             < 115 * sizeX * sizeX * sizeY * sizeY
                THEN {g[c[1]][c[2]], colorIndex}
                ELSE {g[c[1]][c[2]]}])

RECURSIVE addLargeShapes(_, _, _, _, _, _, _)
addLargeShapes(gs, i, w, h, numColors, backgroundIndex, ratios) ==
    IF i = 0 THEN gs
    ELSE addLargeShapes(
            UNION {drawOrganicShape(g, centerX, centerY, sizeX, sizeY,
                                    colorIndex, w, h) :
                      g \in gs, centerX \in 0..(w - 1), centerY \in 0..(h - 1),
                      colorIndex \in WeightedColorsExcluding(
                                        ratios, {backgroundIndex}, numColors),
                      sizeX \in 8..19, sizeY \in 6..15},
            i - 1, w, h, numColors, backgroundIndex, ratios)

drawVerticalElement(g, startX, startY, colorIndex, w, h) ==
    {FillRect(g, startX, startY, width, height, colorIndex, w, h) :
        height \in 4..11, width \in 1..2}

drawHorizontalElement(g, startX, startY, colorIndex, w, h) ==
    {FillRect(g, startX, startY, width, height, colorIndex, w, h) :
        width \in 4..11, height \in 1..2}

\* a cell within the radius is painted with probability 0.7
drawClusterElement(g, centerX, centerY, colorIndex, w, h) ==
    UNION {Choices(g, CellSeq(w, h),
              [c \in Cells(w, h) |->
                  LET dx == c[2] - centerX
                      dy == c[1] - centerY
                  IN  IF /\ abs(dx) <= size /\ abs(dy) <= size
                         /\ dx * dx + dy * dy <= size * size
                      THEN {g[c[1]][c[2]], colorIndex}
                      ELSE {g[c[1]][c[2]]}]) : size \in 2..4}

RECURSIVE addWoodlandElements(_, _, _, _, _, _)
addWoodlandElements(gs, i, w, h, numColors, ratios) ==
    IF i = 0 THEN gs
    ELSE addWoodlandElements(
            UNION {drawVerticalElement(g, x, y, colorIndex, w, h)
                     \cup drawHorizontalElement(g, x, y, colorIndex, w, h)
                     \cup drawClusterElement(g, x, y, colorIndex, w, h) :
                      g \in gs, x \in 0..(w - 1), y \in 0..(h - 1),
                      colorIndex \in WeightedColors(ratios, numColors)},
            i - 1, w, h, numColors, ratios)

\* the first iteration of addDigitalDetails calls rand.Intn(cellWidth - 1)
\* and rand.Intn(cellHeight - 1)
addDigitalDetailsAborts(w, h) ==
    /\ GoDiv(w * h, Pat1PixelDivisor) > 0
    /\ (IntnPanics(w - 1) \/ IntnPanics(h - 1))

RECURSIVE addDigitalDetails(_, _, _, _, _, _)
addDigitalDetails(gs, i, w, h, numColors, ratios) ==
    IF i = 0 THEN gs
    ELSE addDigitalDetails(
            {FillRect(g, x, y, width, height, colorIndex, w, h) :
                g \in gs, x \in 0..(w - 2), y \in 0..(h - 2),
                colorIndex \in WeightedColors(ratios, numColors),
                width \in 1..2, height \in 1..2},
            i - 1, w, h, numColors, ratios)

\* the tally over the 3x3 block around an interior cell
BoxCount(g, y, x) ==
    LET at(d) == g[y + d[1]][x + d[2]]
        offs == ((-1)..1) \X ((-1)..1)
        keys == {at(d) : d \in offs}
    IN  [c \in keys |-> Cardinality({d \in offs : at(d) = c})]

InteriorSeq(w, h) ==
    SelectSeq(CellSeq(w, h),
              LAMBDA c : c[1] >= 1 /\ c[1] < h - 1 /\ c[2] >= 1 /\ c[2] < w - 1)

Pat1SmoothingPasses == 2

\* one pass of applyMilitarySmoothing: an interior cell keeps its colour
\* or takes the most common colour of its block
Pat1SmoothGrids(g, w, h) ==
    Choices(g, InteriorSeq(w, h),
        [c \in Cells(w, h) |->
            {g[c[1]][c[2]]} \cup VoteTie(BoxCount(g, c[1], c[2]), g[c[1]][c[2]])])

\* Generate up to the end of addLargeShapes
Pat1Begin ==
    /\ pc = "call"
    /\ cfg.PatternType = "pat1"
    /\ LET adj == AdjustBasePixelSize(cfg)
           w == GoDiv(cfg.Width, adj)
           h == GoDiv(cfg.Height, adj)
       IN  /\ adjustedBasePixelSize' = adj
           /\ cfg' = [cfg EXCEPT !.BasePixelSize = BaseAfterAdjust(cfg)]
           /\ img' = NewNRGBA(cfg.Width, cfg.Height)
           /\ \E backgroundColorIndex \in 0..(Len(colors) - 1) :
                 grid' \in addLargeShapes(
                     {[y \in 0..(h - 1) |-> [x \in 0..(w - 1) |->
                          backgroundColorIndex]]},
                     GoDiv(w * h, Pat1ShapeDivisor), w, h, Len(colors),
                     backgroundColorIndex, cfg.ColorRatios)
    /\ pass' = 0
    /\ pc' = "elements"
    /\ UNCHANGED <<colors, requested>>
    /\ UNCHANGED <<callVars, poolVars, fnVars>>

Pat1Elements ==
    /\ pc = "elements"
    /\ cfg.PatternType = "pat1"
    /\ grid' \in addWoodlandElements(
                    {grid}, GoDiv(cellWidth * cellHeight, Pat1ElementDivisor),
                    cellWidth, cellHeight, Len(colors), cfg.ColorRatios)
    /\ pc' = "details"
    /\ UNCHANGED <<cfg, colors, requested, adjustedBasePixelSize, img, pass>>
    /\ UNCHANGED <<callVars, poolVars, fnVars>>

Pat1Details ==
    /\ pc = "details"
    /\ cfg.PatternType = "pat1"
    /\ IF addDigitalDetailsAborts(cellWidth, cellHeight)
       THEN /\ pc' = "panic"
            /\ grid' = grid
       ELSE /\ pc' = "smooth"
            /\ grid' \in addDigitalDetails(
                            {grid}, GoDiv(cellWidth * cellHeight, Pat1PixelDivisor),
                            cellWidth, cellHeight, Len(colors), cfg.ColorRatios)
    /\ UNCHANGED <<cfg, colors, requested, adjustedBasePixelSize, img, pass>>
    /\ UNCHANGED <<callVars, poolVars, fnVars>>

Pat1Smooth ==
    /\ pc = "smooth"
    /\ cfg.PatternType = "pat1"
    /\ pass < Pat1SmoothingPasses
    /\ grid' \in Pat1SmoothGrids(grid, cellWidth, cellHeight)
    /\ pass' = pass + 1
    /\ UNCHANGED <<cfg, colors, requested, adjustedBasePixelSize, img, pc>>
    /\ UNCHANGED <<callVars, poolVars, fnVars>>

Pat1Render ==
    /\ pc = "smooth"
    /\ cfg.PatternType = "pat1"
    /\ pass = Pat1SmoothingPasses
    /\ IF RenderAborts(grid, colors)
       THEN /\ pc' = "panic"
            /\ img' = img
       ELSE /\ pc' = "rendered"
            /\ img' = RenderCells(img, grid, colors, adjustedBasePixelSize,
                                  cellWidth, cellHeight)
    /\ UNCHANGED <<cfg, colors, requested, adjustedBasePixelSize, grid, pass>>
    /\ UNCHANGED <<callVars, poolVars, fnVars>>

(***************************************************************************)
(* pat2: a background colour, blobs, elements, flows, clusters and         *)
(* fractal elements whose numbers grow with the number of cells, colour    *)
(* transitions and a blending pass over the interior.                      *)
(*                                                                         *)
(* The shapes are bounded by simpleNoise, sin-based and within             *)
(* [-0.5, 0.5): a cell that some noise value and some draw paint is a      *)
(* cell the shape may paint, and every such cell is painted or left        *)
(* independently of the others.                                            *)
(***************************************************************************)
\* the grids in which each cell of `may` has its colour or colorIndex
PaintAny(g, w, h, may, colorIndex) ==
    Choices(g, SelectSeq(CellSeq(w, h), LAMBDA c : c \in may),
            [c \in Cells(w, h) |-> {g[c[1]][c[2]], colorIndex}])

\* the cells of the grid within the box dx in -sx..sx, dy in -sy..sy
BoxCells(centerX, centerY, sx, sy, w, h) ==
    {c \in Cells(w, h) : abs(c[2] - centerX) <= sx /\ abs(c[1] - centerY) <= sy}

Pat2BlobDivisor == 120
Pat2ElementDivisor == 80
Pat2FlowDivisor == 300
Pat2PixelDivisor == 30
Pat2FractalDivisor == 200

\* organicRadius is below 1 + (0.5 + 0.2 + 0.075) * 0.6 = 1.465
drawEllipticalBlob(g, centerX, centerY, sizeX, sizeY, colorIndex, w, h) ==
    PaintAny(g, w, h,
        {c \in BoxCells(centerX, centerY, sizeX, sizeY, w, h) :
            LET dx == c[2] - centerX
                dy == c[1] - centerY
            IN  1000 * (dx * dx * sizeY * sizeY + dy * dy * sizeX * sizeX)
                  < 1465 * sizeX * sizeX * sizeY * sizeY},
        colorIndex)

\* the centres generateLargeScaleBlobs can draw; the edge placement calls
\* rand.Intn(gridWidth/4)
generateLargeScaleBlobsAborts(w, h) ==
    /\ GoDiv(w * h, Pat2BlobDivisor) > 0
    /\ IntnPanics(GoDiv(w, 4))

BlobCentersX(w) ==
    {k + GoDiv(w * 3, 4) : k \in 0..(GoDiv(w, 4) - 1)} \cup 0..(w - 1)

RECURSIVE generateLargeScaleBlobs(_, _, _, _, _)
generateLargeScaleBlobs(gs, i, w, h, numColors) ==
    IF i = 0 THEN gs
    ELSE generateLargeScaleBlobs(
            UNION {drawEllipticalBlob(g, centerX, centerY, blobSizeX, blobSizeY,
                                      colorIndex, w, h) :
                      g \in gs, centerX \in BlobCentersX(w),
                      centerY \in 0..(h - 1), colorIndex \in 0..(numColors - 1),
                      blobSizeX \in 6..19, blobSizeY \in 4..13},
            i - 1, w, h, numColors)

\* getIntermediateColor returning the sum of the two indices
TransitionColors_Sum(g, y, x, numColors) ==
    LET currentColor == g[y][x]
        neighbors == {g[y - 1][x], g[y + 1][x], g[y][x - 1], g[y][x + 1]}
    IN  {currentColor} \cup
        {currentColor + neighborColor :
            neighborColor \in {c \in neighbors : c # currentColor}}

\* getIntermediateColor returns a colour other than the two, or -1
TransitionColors(g, y, x, numColors) ==
    LET currentColor == g[y][x]
        neighbors == {g[y - 1][x], g[y + 1][x], g[y][x - 1], g[y][x + 1]}
    IN  {currentColor} \cup
        {c \in 0..(numColors - 1) :
            \E neighborColor \in neighbors :
                /\ neighborColor # currentColor
                /\ c # currentColor /\ c # neighborColor}

\* addColorTransitions writes grid in place, cell after cell
RECURSIVE addColorTransitions(_, _, _)
addColorTransitions(gs, cs, numColors) ==
    IF cs = <<>> THEN gs
    ELSE addColorTransitions(
            UNION {{[g EXCEPT ![Head(cs)[1]][Head(cs)[2]] = v] :
                       v \in TransitionColors(g, Head(cs)[1], Head(cs)[2],
                                              numColors)} : g \in gs},
            Tail(cs), numColors)

\* organicRadius is below size + (0.5 + 0.15) * 2.5 = size + 13/8
drawOrganicBlob(g, centerX, centerY, size, colorIndex, w, h) ==
    PaintAny(g, w, h,
        {c \in BoxCells(centerX, centerY, size, size, w, h) :
            LET dx == c[2] - centerX
                dy == c[1] - centerY
            IN  64 * (dx * dx + dy * dy) < (8 * size + 13) * (8 * size + 13)},
        colorIndex)

\* organicSize is below size + 0.75 and the distance max(|dx|, |dy|) is a
\* whole number: every cell of the box may be painted
drawSoftAngularElement(g, centerX, centerY, size, colorIndex, w, h) ==
    PaintAny(g, w, h, BoxCells(centerX, centerY, size, size, w, h), colorIndex)

RECURSIVE generateMediumScaleElements(_, _, _, _, _, _)
generateMediumScaleElements(gs, i, w, h, numColors, ratios) ==
    IF i = 0 THEN gs
    ELSE generateMediumScaleElements(
            UNION {drawOrganicBlob(g, x, y, size, colorIndex, w, h)
                     \cup drawSoftAngularElement(g, x, y, size, colorIndex, w, h) :
                      g \in gs, x \in 0..(w - 1), y \in 0..(h - 1),
                      colorIndex \in WeightedColors(ratios, numColors),
                      size \in 3..8},
            i - 1, w, h, numColors, ratios)

\* one flow from <<startX, startY>>: currentY, kept in fifths of a cell,
\* drifts by less than a fifth at each step; y is int(currentY), which
\* truncates toward zero
RECURSIVE FlowGrids(_, _, _, _, _, _, _, _)
FlowGrids(gs, startX, step, flowLength, currentY5, colorIndex, w, h) ==
    LET x == startX + step
        y == GoDiv(currentY5, 5)
    IN  IF step >= flowLength \/ x >= w \/ currentY5 <= -5 \/ y >= h THEN gs
        ELSE UNION {FlowGrids(gs \cup {[g EXCEPT ![y][x] = colorIndex] : g \in gs},
                              startX, step + 1, flowLength, currentY5 + drift,
                              colorIndex, w, h) : drift \in {-1, 0, 1}}

addDirectionalFlowAborts(w, h) ==
    /\ GoDiv(w * h, Pat2FlowDivisor) > 0
    /\ IntnPanics(GoDiv(w, 3))

RECURSIVE addDirectionalFlow(_, _, _, _, _, _)
addDirectionalFlow(gs, i, w, h, numColors, ratios) ==
    IF i = 0 THEN gs
    ELSE addDirectionalFlow(
            UNION {FlowGrids(gs, startX, 0, flowLength, 5 * startY, colorIndex,
                             w, h) :
                      startX \in 0..(GoDiv(w, 3) - 1), startY \in 0..(h - 1),
                      colorIndex \in WeightedColors(ratios, numColors),
                      flowLength \in 8..22},
            i - 1, w, h, numColors, ratios)

\* organicRadius is below size + 0.5 * 0.8 = size + 2/5
drawTinyOrganicCluster(g, centerX, centerY, size, colorIndex, w, h) ==
    PaintAny(g, w, h,
        {c \in BoxCells(centerX, centerY, size, size, w, h) :
            LET dx == c[2] - centerX
                dy == c[1] - centerY
            IN  25 * (dx * dx + dy * dy) < (5 * size + 2) * (5 * size + 2)},
        colorIndex)

RECURSIVE generateSmallScaleNoise(_, _, _, _, _, _)
generateSmallScaleNoise(gs, i, w, h, numColors, ratios) ==
    IF i = 0 THEN gs
    ELSE generateSmallScaleNoise(
            UNION {drawTinyOrganicCluster(g, x, y, size, colorIndex, w, h) :
                      g \in gs, x \in 0..(w - 1), y \in 0..(h - 1),
                      colorIndex \in WeightedColors(ratios, numColors),
                      size \in 1..2},
            i - 1, w, h, numColors, ratios)

\* the L, T and cross shapes, as <<dx, dy>> offsets
FractalPatterns ==
    {{<<0, 0>>, <<1, 0>>, <<0, 1>>},
     {<<0, 0>>, <<-1, 0>>, <<1, 0>>, <<0, 1>>},
     {<<0, 0>>, <<1, 0>>, <<-1, 0>>, <<0, 1>>, <<0, -1>>}}

drawFractalElement(g, centerX, centerY, colorIndex, w, h) ==
    {[y \in DOMAIN g |-> [x \in DOMAIN g[y] |->
         IF <<x - centerX, y - centerY>> \in pattern THEN colorIndex
         ELSE g[y][x]]] : pattern \in FractalPatterns}

RECURSIVE addFractalDetails(_, _, _, _, _, _)
addFractalDetails(gs, i, w, h, numColors, ratios) ==
    IF i = 0 THEN gs
    ELSE addFractalDetails(
            UNION {drawFractalElement(g, x, y, colorIndex, w, h) :
                      g \in gs, x \in 0..(w - 1), y \in 0..(h - 1),
                      colorIndex \in WeightedColors(ratios, numColors)},
            i - 1, w, h, numColors, ratios)

\* an interior cell takes the most common colour of its block when that
\* colour has six of the nine cells, or keeps its own
blendTransitions(g, w, h) ==
    Choices(g, InteriorSeq(w, h),
        [c \in Cells(w, h) |->
            LET cnt == BoxCount(g, c[1], c[2])
            IN  {g[c[1]][c[2]]}
                \cup (IF MaxCount(cnt) >= 6 THEN VoteFirst(cnt, g[c[1]][c[2]])
                      ELSE {})])

\* Generate up to the end of generateLargeScaleBlobs; the edge placement,
\* taken with probability 0.3 for each blob, aborts the call on a grid
\* less than four cells wide
Pat2Begin ==
    /\ pc = "call"
    /\ cfg.PatternType = "pat2"
    /\ LET pixelSize == AdjustBasePixelSize(cfg)
           w == GoDiv(cfg.Width, pixelSize)
           h == GoDiv(cfg.Height, pixelSize)
       IN  /\ adjustedBasePixelSize' = pixelSize
           /\ cfg' = [cfg EXCEPT !.BasePixelSize = BaseAfterAdjust(cfg)]
           /\ img' = NewNRGBA(cfg.Width, cfg.Height)
           /\ \E baseColorIndex \in 0..(Len(colors) - 1) :
                LET base == [y \in 0..(h - 1) |-> [x \in 0..(w - 1) |->
                                baseColorIndex]]
                IN  \/ /\ generateLargeScaleBlobsAborts(w, h)
                       /\ grid' = base
                       /\ pc' = "panic"
                    \/ /\ grid' \in generateLargeScaleBlobs(
                                       {base}, GoDiv(w * h, Pat2BlobDivisor),
                                       w, h, Len(colors))
                       /\ pc' = "transitions"
    /\ pass' = 0
    /\ UNCHANGED <<colors, requested>>
    /\ UNCHANGED <<callVars, poolVars, fnVars>>

Pat2Transitions ==
    /\ pc = "transitions"
    /\ cfg.PatternType = "pat2"
    /\ grid' \in addColorTransitions({grid}, InteriorSeq(cellWidth, cellHeight),
                                     Len(colors))
    /\ pc' = "medium"
    /\ UNCHANGED <<cfg, colors, requested, adjustedBasePixelSize, img, pass>>
    /\ UNCHANGED <<callVars, poolVars, fnVars>>

Pat2Medium ==
    /\ pc = "medium"
    /\ cfg.PatternType = "pat2"
    /\ grid' \in generateMediumScaleElements(
                    {grid}, GoDiv(cellWidth * cellHeight, Pat2ElementDivisor),
                    cellWidth, cellHeight, Len(colors), cfg.ColorRatios)
    /\ pc' = "flow"
    /\ UNCHANGED <<cfg, colors, requested, adjustedBasePixelSize, img, pass>>
    /\ UNCHANGED <<callVars, poolVars, fnVars>>

Pat2Flow ==
    /\ pc = "flow"
    /\ cfg.PatternType = "pat2"
    /\ IF addDirectionalFlowAborts(cellWidth, cellHeight)
       THEN /\ pc' = "panic"
            /\ grid' = grid
       ELSE /\ pc' = "small"
            /\ grid' \in addDirectionalFlow(
                            {grid}, GoDiv(cellWidth * cellHeight, Pat2FlowDivisor),
                            cellWidth, cellHeight, Len(colors), cfg.ColorRatios)
    /\ UNCHANGED <<cfg, colors, requested, adjustedBasePixelSize, img, pass>>
    /\ UNCHANGED <<callVars, poolVars, fnVars>>

Pat2Small ==
    /\ pc = "small"
    /\ cfg.PatternType = "pat2"
    /\ grid' \in generateSmallScaleNoise(
                    {grid}, GoDiv(cellWidth * cellHeight, Pat2PixelDivisor),
                    cellWidth, cellHeight, Len(colors), cfg.ColorRatios)
    /\ pc' = "fractal"
    /\ UNCHANGED <<cfg, colors, requested, adjustedBasePixelSize, img, pass>>
    /\ UNCHANGED <<callVars, poolVars, fnVars>>

Pat2Fractal ==
    /\ pc = "fractal"
    /\ cfg.PatternType = "pat2"
    /\ grid' \in addFractalDetails(
                    {grid}, GoDiv(cellWidth * cellHeight, Pat2FractalDivisor),
                    cellWidth, cellHeight, Len(colors), cfg.ColorRatios)
    /\ pc' = "blend"
    /\ UNCHANGED <<cfg, colors, requested, adjustedBasePixelSize, img, pass>>
    /\ UNCHANGED <<callVars, poolVars, fnVars>>

Pat2Blend ==
    /\ pc = "blend"
    /\ cfg.PatternType = "pat2"
    /\ grid' \in blendTransitions(grid, cellWidth, cellHeight)
    /\ pc' = "render"
    /\ UNCHANGED <<cfg, colors, requested, adjustedBasePixelSize, img, pass>>
    /\ UNCHANGED <<callVars, poolVars, fnVars>>

Pat2Render ==
    /\ pc = "render"
    /\ cfg.PatternType = "pat2"
    /\ IF RenderAborts(grid, colors)
       THEN /\ pc' = "panic"
            /\ img' = img
       ELSE /\ pc' = "rendered"
            /\ img' = RenderCells(img, grid, colors, adjustedBasePixelSize,
                                  cellWidth, cellHeight)
    /\ UNCHANGED <<cfg, colors, requested, adjustedBasePixelSize, grid, pass>>
    /\ UNCHANGED <<callVars, poolVars, fnVars>>

(***************************************************************************)
(* The end of every Generate: the noise pass, then the edge pass, each     *)
(* only if configured, and the return of the image.                        *)
(***************************************************************************)
clamp(value, min, max) ==
    IF value < min THEN min ELSE IF value > max THEN max ELSE value

\* the images in which each pixel of ps has, in turn, every value of
\* poss[pixel]
RECURSIVE PixelChoices(_, _, _)
PixelChoices(ims, ps, poss) ==
    IF ps = <<>> THEN ims
    ELSE PixelChoices({[im EXCEPT !.Pix[Head(ps)[1]][Head(ps)[2]] = v] :
                          im \in ims, v \in poss[Head(ps)]},
                      Tail(ps), poss)

\* a pixel is left alone or set to the mean of itself and a palette colour
addNoiseNRGBA(im, cols) ==
    IF Len(cols) = 0 THEN {im}
    ELSE PixelChoices({im}, CellSeq(im.Dx, im.Dy),
            [p \in Cells(im.Dx, im.Dy) |->
                LET currentColor == im.Pix[p[1]][p[2]]
                IN  {currentColor} \cup
                    {NRGBAModel([R |-> GoDiv(currentColor.R + cols[i].R, 2),
                                 G |-> GoDiv(currentColor.G + cols[i].G, 2),
                                 B |-> GoDiv(currentColor.B + cols[i].B, 2),
                                 A |-> 255]) : i \in 1..Len(cols)}])

\* the draws rand.Intn(41) - 20 taken for each channel
EdgeVariations == {-20, 0, 20}

\* a pixel in the first row or column of a block is left alone or has each
\* channel moved by its own draw and clamped
addEdgeDetailsNRGBA(im, basePixelSize) ==
    IF basePixelSize <= 0 THEN {im}
    ELSE PixelChoices({im}, CellSeq(im.Dx, im.Dy),
            [p \in Cells(im.Dx, im.Dy) |->
                LET currentColor == im.Pix[p[1]][p[2]]
                IN  IF GoMod(p[2], basePixelSize) = 0 \/ GoMod(p[1], basePixelSize) = 0
                    THEN {currentColor} \cup
                         {NRGBAModel([R |-> clamp(currentColor.R + dr, 0, 255),
                                      G |-> clamp(currentColor.G + dg, 0, 255),
                                      B |-> clamp(currentColor.B + db, 0, 255),
                                      A |-> 255]) :
                             dr \in EdgeVariations, dg \in EdgeVariations,
                             db \in EdgeVariations}
                    ELSE {currentColor}])

\* if cfg.AddNoise { addNoiseNRGBA(img, colors) }
GenNoise ==
    /\ pc = "rendered"
    /\ img' \in (IF cfg.AddNoise THEN addNoiseNRGBA(img, colors) ELSE {img})
    /\ pc' = "noised"
    /\ UNCHANGED <<cfg, colors, requested, adjustedBasePixelSize, grid, pass>>
    /\ UNCHANGED <<callVars, poolVars, fnVars>>

\* if cfg.AddEdge { addEdgeDetailsNRGBA(img, adjustedBasePixelSize) }
\* return img, nil
GenEdge ==
    /\ pc = "noised"
    /\ img' \in (IF cfg.AddEdge
                 THEN addEdgeDetailsNRGBA(img, adjustedBasePixelSize) ELSE {img})
    /\ pc' = "returned"
    /\ UNCHANGED <<cfg, colors, requested, adjustedBasePixelSize, grid, pass>>
    /\ UNCHANGED <<callVars, poolVars, fnVars>>

(***************************************************************************)
(* SpecGen: one call of Generate of one of the five recipes.               *)
(***************************************************************************)
MaxDim == 4         \* width and height range over 1..MaxDim
MaxBlock == 2       \* the requested block size ranges over 0..MaxBlock
MaxColors == 2      \* palettes have 2..MaxColors colours
MaxCells == 4       \* grids have at most MaxCells cells

Recipes == {"pat1", "pat2", "pat3", "pat4", "pat5"}

GridCells(w, h, b) ==
    LET adj == AdjustBasePixelSize(MkConfig(w, h, b, "", NilRatios))
    IN  GoDiv(w, adj) * GoDiv(h, adj)

\* grids one and two cells across with just enough cells for pat1 to draw
\* one digital detail, and a grid with interior cells
Pat1Strips == {<<1, 50>>, <<50, 1>>, <<2, 25>>, <<3, 17>>}

\* a row of cells long enough for pat2 to draw one small cluster
Pat2Strips == {<<30, 1>>}

\* a grid tall enough for the hash of pat5 to give its rows two colours
Pat5Strips == {<<2, 5>>}

\* the images on which the noise and edge passes are switched on
PostDims == {<<2, 1>>}

GenInputs ==
    {in \in [t : Recipes, w : 1..MaxDim, h : 1..MaxDim, b : 0..MaxBlock,
             n : 2..MaxColors, equal : BOOLEAN, noise : {FALSE},
             edge : {FALSE}] :
        GridCells(in.w, in.h, in.b) <= MaxCells}
    \cup {[t |-> r, w |-> d[1], h |-> d[2], b |-> 1, n |-> 2, equal |-> TRUE,
           noise |-> f[1], edge |-> f[2]] :
             r \in Recipes, d \in PostDims,
             f \in (BOOLEAN \X BOOLEAN) \ {<<FALSE, FALSE>>}}
    \cup {[t |-> "pat1", w |-> d[1], h |-> d[2], b |-> 1, n |-> 2,
           equal |-> TRUE, noise |-> FALSE, edge |-> FALSE] : d \in Pat1Strips}
    \cup {[t |-> "pat2", w |-> d[1], h |-> d[2], b |-> 1, n |-> 2,
           equal |-> TRUE, noise |-> FALSE, edge |-> FALSE] : d \in Pat2Strips}
    \cup {[t |-> "pat5", w |-> d[1], h |-> d[2], b |-> 1, n |-> 2,
           equal |-> FALSE, noise |-> FALSE, edge |-> FALSE] : d \in Pat5Strips}

GenInit ==
    /\ \E in \in GenInputs :
          /\ cfg = [MkConfig(in.w, in.h, in.b, in.t,
                             IF in.equal THEN EqualRatios(in.n) ELSE NilRatios)
                       EXCEPT !.AddNoise = in.noise, !.AddEdge = in.edge]
          /\ colors = Palette(in.n)
    /\ requested = cfg.BasePixelSize
    /\ adjustedBasePixelSize = 0
    /\ grid = <<>>
    /\ img = <<>>
    /\ pass = 0
    /\ pc = "call"
    /\ CallIdle
    /\ PoolIdle
    /\ FnIdle

GenNext ==
    \/ Pat1Begin \/ Pat1Elements \/ Pat1Details \/ Pat1Smooth \/ Pat1Render
    \/ Pat2Begin \/ Pat2Transitions \/ Pat2Medium \/ Pat2Flow \/ Pat2Small
    \/ Pat2Fractal \/ Pat2Blend \/ Pat2Render
    \/ Pat3Begin \/ Pat3Automaton \/ Pat3Shapes \/ Pat3Render
    \/ Pat4Begin \/ Pat4Automaton \/ Pat4Render
    \/ Pat5Begin \/ Pat5Cluster \/ Pat5Texture \/ Pat5Render
    \/ GenNoise \/ GenEdge

SpecGen == GenInit /\ [][GenNext]_vars

(***************************************************************************)
(* Properties of Generate, checked under SpecGen.                          *)
(***************************************************************************)
\* C1: for every recipe pat1..pat5, every palette of at least two colours
\* and every width, height and requested block size of at least 1,
\* Generate completes: it never aborts part-way on an out-of-range index
\* or an invalid random-range argument.
C1_GenerateCompletes ==
    (/\ Len(colors) >= 2 /\ cfg.Width >= 1 /\ cfg.Height >= 1 /\ requested >= 1)
        => pc # "panic"

\* C2: the image Generate returns has bounds exactly the configured
\* width x height, whatever block size was requested.
C2_ImageBounds ==
    pc = "returned" =>
        /\ img.Dx = cfg.Width
        /\ img.Dy = cfg.Height
        /\ DOMAIN img.Pix = 0..(cfg.Height - 1)
        /\ \A y \in DOMAIN img.Pix : DOMAIN img.Pix[y] = 0..(cfg.Width - 1)

\* an image that is not square has been returned for a requested block
\* size that had to be reconciled
C2_Witness ==
    /\ pc = "returned"
    /\ cfg.Width # cfg.Height
    /\ requested # adjustedBasePixelSize

\* C3: with the noise and edge passes disabled, every pixel of the
\* returned image equals the palette colour stored in the grid cell that
\* owns it, the cell at the pixel's coordinates divided by the reconciled
\* block size.
C3_PixelOfOwningCell ==
    (pc = "returned" /\ ~cfg.AddNoise /\ ~cfg.AddEdge) =>
        \A y \in 0..(cfg.Height - 1) : \A x \in 0..(cfg.Width - 1) :
            img.Pix[y][x] =
                colors[grid[y \div adjustedBasePixelSize]
                           [x \div adjustedBasePixelSize] + 1]

\* an image of blocks several pixels wide over a grid of more than one
\* colour has been returned with both passes disabled
C3_Witness ==
    /\ pc = "returned" /\ ~cfg.AddNoise /\ ~cfg.AddEdge
    /\ adjustedBasePixelSize >= 2
    /\ \E y1, y2 \in DOMAIN grid : \E x1 \in DOMAIN grid[y1] :
          \E x2 \in DOMAIN grid[y2] : grid[y1][x1] # grid[y2][x2]

(***************************************************************************)
(* Strings are sequences of one-character strings, so that trimming,       *)
(* splitting and parsing are computed as the code computes them.           *)
(***************************************************************************)
RECURSIVE TrimLeft(_)
TrimLeft(s) == IF s # <<>> /\ Head(s) = " " THEN TrimLeft(Tail(s)) ELSE s

RECURSIVE TrimRight(_)
TrimRight(s) ==
    IF s # <<>> /\ s[Len(s)] = " " THEN TrimRight(SubSeq(s, 1, Len(s) - 1)) ELSE s

TrimSpace(s) == TrimRight(TrimLeft(s))

StripHash(hex) == IF Len(hex) > 0 /\ hex[1] = "#" THEN Tail(hex) ELSE hex

Contains(s, c) == \E i \in 1..Len(s) : s[i] = c

LowerDigits == <<"0", "1", "2", "3", "4", "5", "6", "7", "8", "9",
                 "a", "b", "c", "d", "e", "f">>
UpperDigits == <<"0", "1", "2", "3", "4", "5", "6", "7", "8", "9",
                 "A", "B", "C", "D", "E", "F">>

IsHexDigit(c) == Contains(LowerDigits, c) \/ Contains(UpperDigits, c)

HexDigitValue(c) ==
    IF Contains(LowerDigits, c)
    THEN (CHOOSE i \in 1..16 : LowerDigits[i] = c) - 1
    ELSE (CHOOSE i \in 1..16 : UpperDigits[i] = c) - 1

\* hexToRGB: [err, r, g, b]
hexToRGB(originalHex) ==
    LET hex0 == StripHash(TrimSpace(originalHex))
        trimmedOriginal == TrimSpace(StripHash(originalHex))
        hex == IF Len(hex0) = 3
               THEN <<hex0[1], hex0[1], hex0[2], hex0[2], hex0[3], hex0[3]>>
               ELSE hex0
        byte(i) == 16 * HexDigitValue(hex[i]) + HexDigitValue(hex[i + 1])
        failed(msg) == [err |-> msg, r |-> 0, g |-> 0, b |-> 0]
    IN  IF Contains(trimmedOriginal, " ") THEN failed("invalid hex color length")
        ELSE IF Len(hex) # 6 THEN failed("invalid hex color length")
        ELSE IF \E i \in 1..6 : ~IsHexDigit(hex[i])
             THEN failed("invalid hex color format")
        ELSE [err |-> "nil", r |-> byte(1), g |-> byte(3), b |-> byte(5)]

\* a palette that HexToRGBA accepts whatever its length
HexToRGBA_AnyLength(hexColors) ==
    [err |-> "nil",
     colors |-> [i \in 1..Len(hexColors) |->
                   LET c == hexToRGB(hexColors[i])
                   IN  [R |-> c.r, G |-> c.g, B |-> c.b, A |-> 255]]]

\* HexToRGBA: [err, colors]
HexToRGBA(hexColors) ==
    LET bad == {i \in 1..Len(hexColors) :
                   \/ hexColors[i] # TrimSpace(hexColors[i])
                   \/ hexToRGB(hexColors[i]).err # "nil"}
    IN  IF Len(hexColors) < 2
        THEN [err |-> "at least 2 colors are required", colors |-> <<>>]
        ELSE IF bad # {} THEN [err |-> "invalid hex color", colors |-> <<>>]
        ELSE [err |-> "nil",
              colors |-> [i \in 1..Len(hexColors) |->
                            LET c == hexToRGB(hexColors[i])
                            IN  [R |-> c.r, G |-> c.g, B |-> c.b, A |-> 255]]]

\* strings.Split(s, ","): the parts between the commas
RECURSIVE Split(_, _, _)
Split(s, i, part) ==
    IF i > Len(s) THEN <<part>>
    ELSE IF s[i] = "," THEN <<part>> \o Split(s, i + 1, <<>>)
    ELSE Split(s, i + 1, Append(part, s[i]))

RECURSIVE DecimalValue(_, _, _)
DecimalValue(s, i, acc) ==
    IF i > Len(s) THEN acc
    ELSE DecimalValue(s, i + 1, 10 * acc + HexDigitValue(s[i]))

\* strconv.Atoi: [ok, n]; an optional sign, then decimal digits
Atoi(part) ==
    LET signed == part # <<>> /\ part[1] \in {"+", "-"}
        digits == IF signed THEN Tail(part) ELSE part
        value == DecimalValue(digits, 1, 0)
    IN  IF digits = <<>> \/ \E i \in 1..Len(digits) :
                               ~Contains(SubSeq(LowerDigits, 1, 10), digits[i])
        THEN [ok |-> FALSE, n |-> 0]
        ELSE [ok |-> TRUE, n |-> IF signed /\ part[1] = "-" THEN -value ELSE value]

\* the weights w, over the denominator d, of ratios that are whole numbers
\* divided by their sum
Normalized(w) == [w |-> w, d |-> SumTo(w, Len(w))]

RandomRatioMax == 5

\* parseColorRatios: the set of results [err, ratios] it can return (more
\* than one only for "random")
parseColorRatios(ratiosString, numColors) ==
    LET parts == Split(SelectSeq(ratiosString, LAMBDA c : c # " "), 1, <<>>)
        parsed == [i \in 1..Len(parts) |-> Atoi(parts[i])]
        failed(msg) == {[err |-> msg, ratios |-> NilRatios]}
        problem(i) ==
            IF parts[i] = <<>> THEN "empty ratio value"
            ELSE IF ~parsed[i].ok THEN "invalid ratio value"
            ELSE IF parsed[i].n < 0 THEN "ratio value cannot be negative"
            ELSE IF parsed[i].n = 0 THEN "ratio value cannot be zero"
            ELSE "nil"
        bad == {i \in 1..Len(parts) : problem(i) # "nil"}
    IN  IF ratiosString = <<>> \/ ratiosString = <<"e", "q", "u", "a", "l">>
        THEN {[err |-> "nil", ratios |-> EqualRatios(numColors)]}
        ELSE IF ratiosString = <<"r", "a", "n", "d", "o", "m">>
        THEN {[err |-> "nil", ratios |-> Normalized(w)] :
                 w \in [1..numColors -> 1..RandomRatioMax]}
        ELSE IF bad # {}
        THEN failed(problem(CHOOSE i \in bad : \A j \in bad : i <= j))
        ELSE {[err |-> "nil",
               ratios |-> Normalized([i \in 1..numColors |->
                              parsed[GoMod(i - 1, Len(parts)) + 1].n])]}

(***************************************************************************)
(* GeneratePattern: the palette checks, SetColorRatios, the choice of the  *)
(* generator, Generate (the actions above), and saveImageToFile.           *)
(***************************************************************************)
\* fmt.Sprintf("gocamo_%03d_%s_%s_%s_w%dx%d.png", ...): the values the
\* name is made of; a leading "#" is trimmed from each colour code
FileName(index, c, patternName, width, height) ==
    <<index, c.Name, [i \in 1..Len(c.Colors) |-> StripHash(c.Colors[i])],
      patternName, width, height>>

\* png.Encode rejects an image without pixels
EncodeRejects(im) == im.Dx <= 0 \/ im.Dy <= 0

\* fmt.Errorf("unknown pattern type: %s", cfg.PatternType), without the name
UnknownPatternType_NoName(name) == "unknown pattern type"

\* fmt.Errorf("unknown pattern type: %s", cfg.PatternType)
UnknownPatternType(name) == "unknown pattern type: " \o name

GeneratePatternBegin ==
    /\ pc = "pattern"
    /\ LET conv == HexToRGBA(camo.Colors)
       IN  IF Len(camo.Colors) = 0
           THEN /\ ret' = "no colors provided in color palette"
                /\ pc' = "done"
                /\ UNCHANGED <<cfg, colors>>
           ELSE IF conv.err # "nil"
           THEN /\ ret' = "error converting hex to RGBA"
                /\ pc' = "done"
                /\ UNCHANGED <<cfg, colors>>
           ELSE \E set \in parseColorRatios(cfg.RatiosString, Len(conv.colors)) :
                  /\ colors' = conv.colors
                  /\ IF set.err # "nil"
                     THEN /\ ret' = "error setting color ratios"
                          /\ pc' = "done"
                          /\ cfg' = cfg
                     ELSE /\ cfg' = [cfg EXCEPT !.ColorRatios = set.ratios]
                          /\ IF cfg.PatternType \in Recipes
                             THEN pc' = "call" /\ ret' = ret
                             ELSE /\ ret' = UnknownPatternType(cfg.PatternType)
                                  /\ pc' = "done"
    /\ UNCHANGED <<requested, adjustedBasePixelSize, grid, img, pass>>
    /\ UNCHANGED <<camo, files, poolVars, fnVars>>

\* the name is built and saveImageToFile called: os.Create may fail; once
\* the file exists png.Encode may fail, on an image without pixels or on a
\* write error, and the file stays
GeneratePatternSave ==
    /\ pc = "returned"
    /\ LET filePath == FileName(0, camo, cfg.PatternType, cfg.Width, cfg.Height)
           others == {f \in files : f.path # filePath}
       IN  \/ /\ ret' = "error creating file"
              /\ files' = files
           \/ /\ ret' = "error saving image"
              /\ files' = others \cup {[path |-> filePath, content |-> "partial"]}
           \/ /\ ~EncodeRejects(img)
              /\ ret' = "nil"
              /\ files' = others \cup {[path |-> filePath, content |-> img]}
    /\ pc' = "done"
    /\ UNCHANGED <<cfg, colors, requested, adjustedBasePixelSize, grid, img, pass>>
    /\ UNCHANGED <<camo, poolVars, fnVars>>

(***************************************************************************)
(* SpecPattern: one call of GeneratePattern into an empty directory.       *)
(***************************************************************************)
MaxPatDim == 2      \* width and height range over 0..MaxPatDim

HexRed == <<"f", "f", "0", "0", "0", "0">>
HexGreen == <<"#", "0", "f", "0">>
HexNoDigit == <<"g", "g", "0", "0", "0", "0">>
HexSpaced == <<" ", "f", "f", "0", "0", "0", "0">>

\* palettes without colours, with one colour, with two, and with a colour
\* HexToRGBA rejects
PatPalettes ==
    {[Name |-> "none", Colors |-> <<>>],
     [Name |-> "one", Colors |-> <<HexRed>>],
     [Name |-> "two", Colors |-> <<HexRed, HexGreen>>],
     [Name |-> "nodigit", Colors |-> <<HexRed, HexNoDigit>>],
     [Name |-> "spaced", Colors |-> <<HexSpaced, HexGreen>>]}

\* the -r strings: none, "2,1", "1, 0" and "random"
PatRatiosStrings ==
    {<<>>, <<"2", ",", "1">>, <<"1", ",", " ", "0">>,
     <<"r", "a", "n", "d", "o", "m">>}

\* "box" is a pattern type of an earlier version, no longer known; "foo"
\* never was one
PatTypes == Recipes \cup {"box", "foo"}

PatternInputs ==
    {in \in [t : PatTypes, w : 0..MaxPatDim, h : 0..MaxPatDim, b : 0..MaxBlock,
             p : PatPalettes, r : PatRatiosStrings] :
        GridCells(in.w, in.h, in.b) <= MaxCells}

PatternInit ==
    /\ \E in \in PatternInputs :
          /\ cfg = [MkConfig(in.w, in.h, in.b, in.t, NilRatios)
                       EXCEPT !.RatiosString = in.r]
          /\ camo = in.p
    /\ requested = cfg.BasePixelSize
    /\ colors = <<>>
    /\ adjustedBasePixelSize = 0
    /\ grid = <<>>
    /\ img = <<>>
    /\ pass = 0
    /\ pc = "pattern"
    /\ ret = ""
    /\ files = {}
    /\ PoolIdle
    /\ FnIdle

PatternNext == GeneratePatternBegin \/ GenNext \/ GeneratePatternSave

SpecPattern == PatternInit /\ [][PatternNext]_vars

(***************************************************************************)
(* Properties of GeneratePattern, checked under SpecPattern.               *)
(***************************************************************************)
\* C9: whenever GeneratePattern returns an error, no output file has been
\* created or partially written by the call.
C9_NoFileOnError == (pc = "done" /\ ret # "nil") => files = {}

\* C10: GeneratePattern called with a palette of fewer than 2 colours
\* returns an input error, "no colors provided" when the palette is empty,
\* without invoking a generator and without creating an output file.
C10_SmallPaletteRejected ==
    Len(camo.Colors) < 2 =>
        /\ pc \in {"pattern", "done"}
        /\ grid = <<>> /\ img = <<>>
        /\ files = {}
        /\ pc = "done" =>
              /\ ret \in {"no colors provided in color palette",
                          "error converting hex to RGBA"}
              /\ Len(camo.Colors) = 0 =>
                    ret = "no colors provided in color palette"

\* GeneratePattern has returned for a palette of one colour and a known
\* recipe
C10_Witness ==
    /\ pc = "done"
    /\ Len(camo.Colors) = 1
    /\ cfg.PatternType \in Recipes
    /\ ret = "error converting hex to RGBA"

\* the palette is one GeneratePattern accepts: at least 2 colours, each a
\* hex colour
ValidPalette == Len(camo.Colors) >= 2 /\ HexToRGBA(camo.Colors).err = "nil"

\* SetColorRatios accepts the ratios string of the Config
RatiosAccepted ==
    \A set \in parseColorRatios(cfg.RatiosString, Len(camo.Colors)) :
        set.err = "nil"

MaxWorkers == 2     \* cfg.Cores ranges over 1..MaxWorkers
MaxJobs == 2        \* palettes or images given to run: 1..MaxJobs
MaxTimeouts == 1    \* jobs of a run that reach the 60-second timeout

patternTypes == <<"pat1", "pat2", "pat3", "pat4", "pat5">>

\* the process is alive: no goroutine has panicked, run has not returned
Running == main.pc \notin {"crashed", "returned"}

JobIds == 1..main.totalJobs

\* Generate of the recipe of Config c aborts on every run, or on some runs
GenerateMustAbort(c) ==
    LET adj == AdjustBasePixelSize(c)
        w == GoDiv(c.Width, adj)
        h == GoDiv(c.Height, adj)
    IN  \/ c.PatternType = "pat1" /\ addDigitalDetailsAborts(w, h)
        \/ c.PatternType = "pat2" /\ addDirectionalFlowAborts(w, h)

GenerateMayAbort(c) ==
    LET adj == AdjustBasePixelSize(c)
        w == GoDiv(c.Width, adj)
        h == GoDiv(c.Height, adj)
    IN  \/ GenerateMustAbort(c)
        \/ c.PatternType = "pat2" /\ generateLargeScaleBlobsAborts(w, h)

\* workers and tracker are started: wg.Add(1) and go worker.Work for each
\* core, then go utils.TrackProgress
MainStart ==
    /\ main.pc = "start"
    /\ wg' = Len(workers)
    /\ workers' = [w \in DOMAIN workers |-> [workers[w] EXCEPT !.pc = "recv"]]
    /\ tracker' = [tracker EXCEPT !.pc = "recv"]
    /\ main' = [main EXCEPT !.pc = "queue"]
    /\ UNCHANGED <<jobs, results, gens, heap, hist>>
    /\ UNCHANGED <<genVars, callVars, fnVars>>

\* one send of the queueing loops: in "all" mode the job points to its own
\* copy of the Config, otherwise to the Config run was given
MainQueue ==
    /\ Running
    /\ main.pc = "queue"
    /\ main.i < main.totalJobs
    /\ Len(jobs.buf) < main.totalJobs
    /\ LET i == main.i
           all == heap[0].PatternType = "all"
           image == heap[0].PatternType = "image"
           item == main.items[IF all THEN (i \div 5) + 1 ELSE i + 1]
           job == [Camo |-> IF image THEN [Name |-> "", Colors |-> <<>>] ELSE item,
                   ImagePath |-> IF image THEN item ELSE [readable |-> FALSE],
                   Index |-> i,
                   OutputPath |-> main.outputAbsPath,
                   Config |-> IF all THEN i + 1 ELSE 0]
       IN  /\ jobs' = [jobs EXCEPT !.buf = Append(@, job)]
           /\ heap' = IF all
                      THEN heap @@ ((i + 1) :>
                             [heap[0] EXCEPT !.PatternType = patternTypes[(i % 5) + 1]])
                      ELSE heap
    /\ main' = [main EXCEPT !.i = @ + 1]
    /\ UNCHANGED <<results, wg, workers, gens, tracker, hist>>
    /\ UNCHANGED <<genVars, callVars, fnVars>>

\* close(jobs)
MainClose ==
    /\ Running
    /\ main.pc = "queue"
    /\ main.i = main.totalJobs
    /\ jobs' = [jobs EXCEPT !.closed = TRUE]
    /\ main' = [main EXCEPT !.pc = "wait"]
    /\ UNCHANGED <<results, wg, workers, gens, tracker, heap, hist>>
    /\ UNCHANGED <<genVars, callVars, fnVars>>

\* wg.Wait() returns; close(results)
MainWait ==
    /\ Running
    /\ main.pc = "wait"
    /\ wg = 0
    /\ results' = [results EXCEPT !.closed = TRUE]
    /\ main' = [main EXCEPT !.pc = "receive"]
    /\ UNCHANGED <<jobs, wg, workers, gens, tracker, heap, hist>>
    /\ UNCHANGED <<genVars, callVars, fnVars>>

\* the tracker's done <- true meets run's <-progressDone; run returns
MainDone ==
    /\ Running
    /\ main.pc = "receive"
    /\ tracker.pc = "signal"
    /\ tracker' = [tracker EXCEPT !.pc = "exited"]
    /\ main' = [main EXCEPT !.pc = "returned"]
    /\ UNCHANGED <<jobs, results, wg, workers, gens, heap, hist>>
    /\ UNCHANGED <<genVars, callVars, fnVars>>

\* for result := range results { ... }: one result is counted; the loop
\* ends when the channel is closed and empty
TrackerRecv ==
    /\ Running
    /\ tracker.pc = "recv"
    /\ IF results.buf # <<>>
       THEN LET result == Head(results.buf)
                completed == tracker.completed + 1
            IN  /\ results' = [results EXCEPT !.buf = Tail(@)]
                /\ tracker' =
                      [pc |-> IF completed = main.totalJobs THEN "signal" ELSE "recv",
                       completed |-> completed,
                       errors |-> tracker.errors + (IF result # "nil" THEN 1 ELSE 0)]
       ELSE /\ results.closed
            /\ tracker' = [tracker EXCEPT !.pc = "exited"]
            /\ results' = results
    /\ UNCHANGED <<jobs, wg, main, workers, gens, heap, hist>>
    /\ UNCHANGED <<genVars, callVars, fnVars>>

\* for j := range jobs: a job is taken, its done channel made and its
\* goroutine started; when the channel is closed and empty the loop ends
\* and the deferred wg.Done() runs
WorkerRecv(w) ==
    /\ Running
    /\ workers[w].pc = "recv"
    /\ IF jobs.buf # <<>>
       THEN LET j == Head(jobs.buf)
                id == j.Index + 1
            IN  /\ jobs' = [jobs EXCEPT !.buf = Tail(@)]
                /\ workers' = [workers EXCEPT ![w] = [pc |-> "select", job |-> id]]
                /\ gens' = [gens EXCEPT ![id] = [pc |-> "start", job |-> j,
                                                 done |-> <<>>]]
                /\ hist' = [hist EXCEPT ![id].taken = @ + 1]
                /\ wg' = wg
       ELSE /\ jobs.closed
            /\ workers' = [workers EXCEPT ![w].pc = "exited"]
            /\ wg' = wg - 1
            /\ UNCHANGED <<jobs, gens, hist>>
    /\ UNCHANGED <<results, main, tracker, heap>>
    /\ UNCHANGED <<genVars, callVars, fnVars>>

\* cancel(); results <- err, on a channel with room for every job
Report(w, err) ==
    /\ Len(results.buf) < main.totalJobs
    /\ ~results.closed
    /\ results' = [results EXCEPT !.buf = Append(@, err)]
    /\ workers' = [workers EXCEPT ![w].pc = "recv"]

\* case err = <-done, and the result is sent
WorkerDone(w) ==
    /\ Running
    /\ workers[w].pc = "select"
    /\ gens[workers[w].job].done # <<>>
    /\ Report(w, Head(gens[workers[w].job].done))
    /\ gens' = [gens EXCEPT ![workers[w].job].done = <<>>]
    /\ hist' = [hist EXCEPT ![workers[w].job].sent = @ + 1]
    /\ UNCHANGED <<jobs, wg, main, tracker, heap>>
    /\ UNCHANGED <<genVars, callVars, fnVars>>

\* the jobs of the run whose 60 seconds have passed before they finished
TimedOut == {id \in JobIds : hist[id].timedOut}

\* case <-ctx.Done(): the 60 seconds have passed, whatever the goroutine
\* of the job is doing, and the error is sent; the goroutine goes on
WorkerTimeout(w) ==
    /\ Running
    /\ workers[w].pc = "select"
    /\ Cardinality(TimedOut) < MaxTimeouts
    /\ Report(w, "operation timed out")
    /\ hist' = [hist EXCEPT ![workers[w].job].sent = @ + 1,
                            ![workers[w].job].timedOut = TRUE]
    /\ UNCHANGED <<jobs, wg, main, gens, tracker, heap>>
    /\ UNCHANGED <<genVars, callVars, fnVars>>

\* done <- err, on a channel of capacity 1 that nobody else sends on; the
\* goroutine of the job ends
Finish(id, err) == [gens EXCEPT ![id].pc = "exited", ![id].done = <<err>>]

\* GeneratePattern up to the choice of the generator: the palette is
\* checked and converted, and cfg.SetColorRatios(len(colors)) assigns
\* cfg.ColorRatios of the Config the job points to
JobPattern(id) ==
    /\ Running
    /\ gens[id].pc = "start"
    /\ LET j == gens[id].job
           c == heap[j.Config]
           conv == HexToRGBA(j.Camo.Colors)
       IN  /\ c.PatternType # "image"
           /\ IF Len(j.Camo.Colors) = 0
              THEN /\ gens' = Finish(id, "no colors provided in color palette")
                   /\ heap' = heap
              ELSE IF conv.err # "nil"
              THEN /\ gens' = Finish(id, "error converting hex to RGBA")
                   /\ heap' = heap
              ELSE \E set \in parseColorRatios(c.RatiosString, Len(j.Camo.Colors)) :
                      IF set.err # "nil"
                      THEN /\ gens' = Finish(id, "error setting color ratios")
                           /\ heap' = heap
                      ELSE /\ heap' = [heap EXCEPT
                                          ![j.Config].ColorRatios = set.ratios]
                           /\ gens' = IF c.PatternType \in Recipes
                                      THEN [gens EXCEPT ![id].pc = "generate"]
                                      ELSE Finish(id, UnknownPatternType(c.PatternType))
    /\ UNCHANGED <<jobs, results, wg, main, workers, tracker, hist>>
    /\ UNCHANGED <<genVars, callVars, fnVars>>

\* saveImageToFile: os.Create and png.Encode fail when the output
\* directory cannot be written
saveImageToFile(j) ==
    IF j.OutputPath.writable THEN "nil" ELSE "error creating file"

\* gen.Generate and saveImageToFile: AdjustBasePixelSize, then the recipe,
\* which reads cfg.ColorRatios, then the file; an abort of the recipe is a
\* panic of this goroutine
JobGenerate(id) ==
    /\ Running
    /\ gens[id].pc = "generate"
    /\ LET j == gens[id].job
           c == heap[j.Config]
       IN  \/ /\ GenerateMayAbort(c)
              /\ main' = [main EXCEPT !.pc = "crashed"]
              /\ UNCHANGED <<gens, heap, hist>>
           \/ /\ ~GenerateMustAbort(c)
              /\ heap' = [heap EXCEPT ![j.Config].BasePixelSize = BaseAfterAdjust(c)]
              /\ gens' = Finish(id, saveImageToFile(j))
              /\ hist' = [hist EXCEPT ![id].written = (saveImageToFile(j) = "nil")]
              /\ main' = main
    /\ UNCHANGED <<jobs, results, wg, workers, tracker>>
    /\ UNCHANGED <<genVars, callVars, fnVars>>

\* GenerateFromImage: AdjustBasePixelSize, then the image is loaded, which
\* fails for a file that is not an image, the pattern made and saved
JobImage(id) ==
    /\ Running
    /\ gens[id].pc = "start"
    /\ LET j == gens[id].job
       IN  /\ heap[j.Config].PatternType = "image"
           /\ heap' = [heap EXCEPT ![j.Config].BasePixelSize =
                                      BaseAfterAdjust(heap[j.Config])]
           /\ gens' = IF j.ImagePath.readable
                      THEN Finish(id, saveImageToFile(j))
                      ELSE Finish(id, "error generating pattern from image")
           /\ hist' = [hist EXCEPT ![id].written =
                          j.ImagePath.readable /\ saveImageToFile(j) = "nil"]
    /\ UNCHANGED <<jobs, results, wg, main, workers, tracker>>
    /\ UNCHANGED <<genVars, callVars, fnVars>>

\* what run is given: the pattern type, cfg.Cores, the dimensions, and the
\* palettes of the JSON file or the images of the directory.  A grid of
\* 4 x 4 blocks of one pixel and, for pat1, the strip of 1 x 50 cells.
RunDims(t) == IF t = "pat1" THEN {<<4, 4>>, <<1, 50>>} ELSE {<<4, 4>>}
HexBlue == <<"0", "0", "0", "0", "f", "f">>
RunPalettes ==
    {[Name |-> "one", Colors |-> <<HexRed>>],
     [Name |-> "two", Colors |-> <<HexRed, HexGreen>>],
     [Name |-> "three", Colors |-> <<HexRed, HexGreen, HexBlue>>]}
\* the files of the image directory: with image data, or without
ImageFiles == [readable : BOOLEAN]
RunItems(t) ==
    IF t = "image" THEN UNION {[1..n -> ImageFiles] : n \in 1..MaxJobs}
    ELSE IF t = "all"
    THEN {<<[Name |-> "custom", Colors |-> <<HexRed, HexGreen>>]>>}
    ELSE UNION {[1..n -> RunPalettes] : n \in 1..MaxJobs}
RunInputs ==
    UNION {[t : {t}, cores : 1..MaxWorkers, d : RunDims(t), items : RunItems(t),
            out : [writable : BOOLEAN]] :
              t \in Recipes \cup {"all", "image"}}

RunInit ==
    /\ \E in \in RunInputs :
          LET totalJobs == IF in.t = "all" THEN Len(in.items) * 5
                           ELSE Len(in.items)
          IN  /\ heap = (0 :> MkConfig(in.d[1], in.d[2], DefaultBasePixelSize,
                                       in.t, NilRatios))
              /\ main = [pc |-> "start", i |-> 0, items |-> in.items,
                         totalJobs |-> totalJobs, outputAbsPath |-> in.out]
              /\ workers = [w \in 1..in.cores |->
                               [pc |-> "idle", job |-> 0]]
              /\ gens = [id \in 1..totalJobs |->
                            [pc |-> "none", job |-> <<>>, done |-> <<>>]]
              /\ hist = [id \in 1..totalJobs |-> [taken |-> 0, sent |-> 0, timedOut |-> FALSE,
                             written |-> FALSE]]
    /\ jobs = [buf |-> <<>>, closed |-> FALSE]
    /\ results = [buf |-> <<>>, closed |-> FALSE]
    /\ wg = 0
    /\ tracker = [pc |-> "idle", completed |-> 0, errors |-> 0]
    /\ cfg = heap[0]
    /\ requested = cfg.BasePixelSize
    /\ adjustedBasePixelSize = 0
    /\ pc = "run"
    /\ colors = <<>> /\ grid = <<>> /\ img = <<>> /\ pass = 0
    /\ CallIdle
    /\ FnIdle

RunNext ==
    \/ MainStart
    \/ MainQueue
    \/ MainClose
    \/ MainWait
    \/ MainDone
    \/ TrackerRecv
    \/ \E w \in DOMAIN workers : WorkerRecv(w)
    \/ \E w \in DOMAIN workers : WorkerDone(w)
    \/ \E w \in DOMAIN workers : WorkerTimeout(w)
    \/ \E id \in JobIds : JobPattern(id)
    \/ \E id \in JobIds : JobGenerate(id)
    \/ \E id \in JobIds : JobImage(id)

SpecRun == RunInit /\ [][RunNext]_vars

\* every goroutine that can take a step is eventually scheduled
FairSpecRun == SpecRun /\ WF_vars(RunNext)

(***************************************************************************)
(* Properties of run and Work, checked under SpecRun and FairSpecRun.      *)
(***************************************************************************)
\* the next step of the goroutine of job id assigns cfg.ColorRatios of the
\* Config the job points to: SetColorRatios is reached and succeeds
WritesColorRatios(id) ==
    /\ gens[id].pc = "start"
    /\ heap[gens[id].job.Config].PatternType # "image"
    /\ Len(gens[id].job.Camo.Colors) > 0
    /\ HexToRGBA(gens[id].job.Camo.Colors).err = "nil"
    /\ \E set \in parseColorRatios(heap[gens[id].job.Config].RatiosString,
                                   Len(gens[id].job.Camo.Colors)) : set.err = "nil"

\* the next step of the goroutine of job id reads cfg.ColorRatios
ReadsColorRatios(id) == gens[id].pc = "generate"

\* two running jobs are about to access the same field of the same Config,
\* one of them writing
ConflictingAccess(a, b) ==
    /\ a # b
    /\ gens[a].pc # "none" /\ gens[b].pc # "none"
    /\ gens[a].job.Config = gens[b].job.Config
    /\ WritesColorRatios(a)
    /\ WritesColorRatios(b) \/ ReadsColorRatios(b)

\* C6: concurrently running jobs share no mutable state: no job writes a
\* field of the Config it was handed that another running job reads or
\* writes.
C6_NoSharedConfigWrite ==
    \A a \in JobIds : \A b \in JobIds : ~ConflictingAccess(a, b)

\* C7: every job is taken by exactly one worker and produces exactly one
\* value on the results channel, so that when the process ends J results
\* have been produced; no job is lost or duplicated.
C7_OneResultPerJob ==
    /\ \A id \in JobIds : hist[id].taken <= 1 /\ hist[id].sent <= hist[id].taken
    /\ ~Running => \A id \in JobIds : hist[id].taken = 1 /\ hist[id].sent = 1

\* C8: for W >= 1 workers and J >= 1 jobs, run eventually returns.
C8_RunReturns == <>(main.pc = "returned")

\* C25: whenever a generator reads cfg.ColorRatios, the vector has the
\* same length as the palette of the job, also when jobs with palettes of
\* different sizes run concurrently on the shared Config.
C25_RatiosMatchPalette ==
    \A id \in JobIds :
        ReadsColorRatios(id) =>
            Len(heap[gens[id].job.Config].ColorRatios.w)
                = Len(gens[id].job.Camo.Colors)

\* C26: once the result of a job has been reported as "operation timed
\* out", no output file of that job is created or written afterwards.
C26_NoFileAfterTimeout ==
    [][\A id \in DOMAIN hist :
          hist[id].timedOut => (hist'[id].written => hist[id].written)]_vars

\* the goroutines of jobs that are executing a generation call
Generating == {id \in JobIds : gens[id].pc \in {"start", "generate"}}

\* C27: at every moment the number of generation calls executing
\* concurrently is at most the configured worker count, also after
\* timeouts.
C27_AtMostCoresGenerating == Cardinality(Generating) <= Len(workers)

(***************************************************************************)
(* ImageGenerator: kMeansClustering.  A point is a triple of channel       *)
(* values; a centroid is the triple of channel sums of its cluster over    *)
(* the size of the cluster, [n |-> <<r, g, b>>, d |-> size], so that the   *)
(* float64 means and the comparisons of distances are computed exactly.    *)
(***************************************************************************)
KMeansIterations == 100     \* maxIterations, as Generate passes it

\* points[i] of a pixel
PointOf(p) == <<p.R, p.G, p.B>>

\* a centroid set to a point
CentroidAt(point) == [n |-> point, d |-> 1]

\* distance(point, centroid) squared, times centroid.d squared
Dist2(point, c) ==
    LET e(i) == point[i] * c.d - c.n[i]
    IN  e(1) * e(1) + e(2) * e(2) + e(3) * e(3)

\* distance(point, a) < distance(point, b)
Nearer(point, a, b) == Dist2(point, a) * b.d * b.d < Dist2(point, b) * a.d * a.d

\* the loop over j: the first centroid no other is nearer than
closestCentroid(point, centroids) ==
    CHOOSE j \in 1..Len(centroids) :
        /\ \A i \in 1..Len(centroids) : ~Nearer(point, centroids[i], centroids[j])
        /\ \A i \in 1..(j - 1) : Nearer(point, centroids[j], centroids[i])

RECURSIVE SumPoints(_, _, _)
SumPoints(points, members, i) ==
    IF i > Len(points) THEN <<0, 0, 0>>
    ELSE LET rest == SumPoints(points, members, i + 1)
         IN  IF i \in members
             THEN <<rest[1] + points[i][1], rest[2] + points[i][2],
                    rest[3] + points[i][3]>>
             ELSE rest

\* one iteration: the points are assigned to clusters, and the centroid of
\* every cluster that is not empty becomes the mean of its points
kMeansStep(points, centroids) ==
    [i \in 1..Len(centroids) |->
        LET cluster == {q \in 1..Len(points) :
                           closestCentroid(points[q], centroids) = i}
        IN  IF cluster = {} THEN centroids[i]
            ELSE [n |-> SumPoints(points, cluster, 1), d |-> Cardinality(cluster)]]

\* the remaining iterations; an iteration that changes nothing is followed
\* by iterations that change nothing
RECURSIVE kMeansIterate(_, _, _)
kMeansIterate(points, centroids, left) ==
    IF left = 0 THEN centroids
    ELSE CHOOSE last \in
            {IF next = centroids THEN centroids
             ELSE kMeansIterate(points, next, left - 1) :
                next \in {kMeansStep(points, centroids)}} : TRUE

\* kMeansClustering aborts: make with a negative length, rand.Intn(0) when
\* there is no point, or centroids[0] when there is no centroid
kMeansAborts(pixels, k) ==
    \/ k < 0
    \/ k > 0 /\ IntnPanics(Len(pixels))
    \/ k = 0 /\ Len(pixels) > 0

\* kMeansClustering(pixels, k, maxIterations) for one draw of the first
\* centroids, first[i] being the value of rand.Intn(len(points)) plus one;
\* a channel is the mean converted to uint8
kMeansFrom(pixels, k, maxIterations, first) ==
    LET points == [i \in 1..Len(pixels) |-> PointOf(pixels[i])]
    IN  CHOOSE result \in
           {[i \in 1..k |->
               [R |-> GoDiv(centroids[i].n[1], centroids[i].d),
                G |-> GoDiv(centroids[i].n[2], centroids[i].d),
                B |-> GoDiv(centroids[i].n[3], centroids[i].d),
                A |-> 255]] :
              centroids \in
                 {kMeansIterate(points,
                                [i \in 1..k |-> CentroidAt(points[first[i]])],
                                maxIterations)}} : TRUE

\* kMeansClustering(pixels, k, maxIterations): the results, one for each
\* draw of the first centroids
kMeansClustering(pixels, k, maxIterations) ==
    {kMeansFrom(pixels, k, maxIterations, first) :
        first \in [1..k -> 1..Len(pixels)]}

(***************************************************************************)
(* ImageGenerator.Generate: the rendering loop.  colorDistance is the      *)
(* square root of an integer, so distances are compared by their squares.   *)
(***************************************************************************)
\* colorDistance(c1, c2), squared
colorDistance2(c1, c2) ==
    (c1.R - c2.R) * (c1.R - c2.R) + (c1.G - c2.G) * (c1.G - c2.G)
        + (c1.B - c2.B) * (c1.B - c2.B)

\* the loop over mainColors[1:], from candidate i on: the nearest and the
\* second nearest colour found, with their squared distances
RECURSIVE NearestTwo(_, _, _, _)
NearestTwo(pixel, mainColors, i, found) ==
    IF i > Len(mainColors) THEN found
    ELSE LET d == colorDistance2(pixel, mainColors[i])
         IN  NearestTwo(pixel, mainColors, i + 1,
                IF d < found.minDistance
                THEN [closestColor |-> mainColors[i], minDistance |-> d,
                      secondClosest |-> found.closestColor,
                      secondDistance |-> found.minDistance]
                ELSE IF d < found.secondDistance
                THEN [found EXCEPT !.secondClosest = mainColors[i],
                                   !.secondDistance = d]
                ELSE found)

\* closestColor, secondClosest and their distances for a pixel
Nearest(pixel, mainColors) ==
    NearestTwo(pixel, mainColors, 2,
        [closestColor |-> mainColors[1],
         minDistance |-> colorDistance2(pixel, mainColors[1]),
         secondClosest |-> mainColors[1],
         secondDistance |-> colorDistance2(pixel, mainColors[1])])

\* the largest r in lo..hi with r * r <= n
RECURSIVE SqrtBetween(_, _, _)
SqrtBetween(n, lo, hi) ==
    IF lo = hi THEN lo
    ELSE LET mid == (lo + hi + 1) \div 2
         IN  IF mid * mid <= n THEN SqrtBetween(n, mid, hi)
             ELSE SqrtBetween(n, lo, mid - 1)

\* math.Sqrt(n) in hundredths, for n up to 3 * 255 * 255
SqrtHundredths(n) == SqrtBetween(n * 10000, 0, 44200)

\* secondDistance - minDistance < 30 && minDistance > 10, on the squares:
\* sqrt(s) - sqrt(m) < 30 iff s - m - 900 < 60 * sqrt(m)
SoftBlend(found) ==
    LET m == found.minDistance
        gap == found.secondDistance - m - 900
    IN  /\ m > 100
        /\ \/ gap < 0
           \/ gap <= 26520 /\ gap * gap < 3600 * m

\* the blended channel: c1 * (1 - blend) + c2 * blend, converted to uint8,
\* with blend = minDistance / (minDistance + secondDistance) and the two
\* square roots taken in hundredths
BlendChannel(c1, c2, found) ==
    LET q == SqrtHundredths(found.minDistance)
        t == SqrtHundredths(found.secondDistance)
    IN  GoDiv(c1 * t + c2 * q, q + t)

\* the colour result.Set is given for a pixel of the enhanced image
RenderedColor(pixel, mainColors) ==
    LET found == Nearest(pixel, mainColors)
    IN  IF SoftBlend(found)
        THEN [R |-> BlendChannel(found.closestColor.R, found.secondClosest.R, found),
              G |-> BlendChannel(found.closestColor.G, found.secondClosest.G, found),
              B |-> BlendChannel(found.closestColor.B, found.secondClosest.B, found),
              A |-> 255]
        ELSE found.closestColor

\* image.NewRGBA(image.Rect(0, 0, w, h))
NewRGBA(w, h) ==
    [Dx |-> w, Dy |-> h,
     Pix |-> [y \in 0..(h - 1) |-> [x \in 0..(w - 1) |-> Transparent]]]

\* the rendering loop aborts: mainColors[0] of an empty slice
ImageRenderAborts(mainColors, w, h) == w > 0 /\ h > 0 /\ Len(mainColors) = 0

\* the rendering loop: pixel (x, y) takes the colour found for the pixel of
\* the enhanced image it is scaled to
ImageRenderPixels(enhanced, mainColors, w, h) ==
    [Dx |-> w, Dy |-> h,
     Pix |-> [y \in 0..(h - 1) |-> [x \in 0..(w - 1) |->
                RenderedColor(enhanced.Pix[GoDiv(y * enhanced.Dy, h)]
                                          [GoDiv(x * enhanced.Dx, w)],
                              mainColors)]]]

(***************************************************************************)
(* ImageGenerator.Generate: the images the clustering works on.            *)
(***************************************************************************)
Max2(a, b) == IF a > b THEN a ELSE b

\* the largest value of channel ch over the pixels at positions ps
RECURSIVE MaxChannel(_, _, _)
MaxChannel(im, ps, ch) ==
    IF ps = {} THEN 0
    ELSE LET p == CHOOSE q \in ps : TRUE
         IN  Max2(im.Pix[p[1]][p[2]][ch], MaxChannel(im, ps \ {p}, ch))

\* maxPooling(img, poolSize): each pixel is the channel-wise maximum of a
\* poolSize block, the last blocks cut at the image's border
maxPooling(im, poolSize) ==
    LET newWidth == GoDiv(im.Dx + poolSize - 1, poolSize)
        newHeight == GoDiv(im.Dy + poolSize - 1, poolSize)
        block(y, x) ==
            {p \in Cells(im.Dx, im.Dy) :
                /\ p[1] \in (y * poolSize)..(y * poolSize + poolSize - 1)
                /\ p[2] \in (x * poolSize)..(x * poolSize + poolSize - 1)}
    IN  [Dx |-> newWidth, Dy |-> newHeight,
         Pix |-> [y \in 0..(newHeight - 1) |-> [x \in 0..(newWidth - 1) |->
                    [R |-> MaxChannel(im, block(y, x), "R"),
                     G |-> MaxChannel(im, block(y, x), "G"),
                     B |-> MaxChannel(im, block(y, x), "B"),
                     A |-> 255]]]]

\* clampLap(int32(mix)) with mix = orig*0.7 + (orig + sum*0.3)*0.3 and sum
\* the kernel's sum 2*orig - 0.25*(the four neighbours inside the image):
\* mix = (11800*orig - 225*neighbours) / 10000
laplacianFilter(im) ==
    LET inside(p) == p \in Cells(im.Dx, im.Dy)
        around(y, x) ==
            {p \in {<<y - 1, x>>, <<y + 1, x>>, <<y, x - 1>>, <<y, x + 1>>} :
                inside(p)}
        RECURSIVE sumOf(_, _)
        sumOf(ps, ch) ==
            IF ps = {} THEN 0
            ELSE LET p == CHOOSE q \in ps : TRUE
                 IN  im.Pix[p[1]][p[2]][ch] + sumOf(ps \ {p}, ch)
        mix(y, x, ch) ==
            clamp(GoDiv(11800 * im.Pix[y][x][ch] - 225 * sumOf(around(y, x), ch),
                        10000), 0, 255)
    IN  [Dx |-> im.Dx, Dy |-> im.Dy,
         Pix |-> [y \in 0..(im.Dy - 1) |-> [x \in 0..(im.Dx - 1) |->
                    [R |-> mix(y, x, "R"), G |-> mix(y, x, "G"),
                     B |-> mix(y, x, "B"), A |-> 255]]]]

\* the pixels of the enhanced image, row by row
PixelsOf(im) ==
    [i \in 1..Len(CellSeq(im.Dx, im.Dy)) |->
        im.Pix[CellSeq(im.Dx, im.Dy)[i][1]][CellSeq(im.Dx, im.Dy)[i][2]]]

(***************************************************************************)
(* addNoiseRGBA and addEdgeDetailsRGBA.                                    *)
(***************************************************************************)
\* a pixel is left alone or set to the mean of itself and a main colour
addNoiseRGBA(im, cols) ==
    IF Len(cols) = 0 THEN {im}
    ELSE PixelChoices({im}, CellSeq(im.Dx, im.Dy),
            [p \in Cells(im.Dx, im.Dy) |->
                LET currentColor == im.Pix[p[1]][p[2]]
                IN  {currentColor} \cup
                    {[R |-> GoDiv(currentColor.R + cols[i].R, 2),
                      G |-> GoDiv(currentColor.G + cols[i].G, 2),
                      B |-> GoDiv(currentColor.B + cols[i].B, 2),
                      A |-> 255] : i \in 1..Len(cols)}])

\* draws of rand.Intn(17) - 8: the two ends and an odd value between
EdgeVariationsRGBA == {-8, -3, 8}

min(a, b) == IF a < b THEN a ELSE b

\* int(float64(variation) * fadeStrength) with fadeStrength 1 on an edge,
\* 0.5 one pixel from it and 0 further away
adjustedVariation(variation, edgeDist) ==
    IF edgeDist = 0 THEN variation
    ELSE IF edgeDist = 1 THEN GoDiv(variation, 2)
    ELSE 0

\* a pixel within two pixels of a block's border is left alone or has its
\* three channels moved by one draw, faded with the distance, and clamped
addEdgeDetailsRGBA(im, basePixelSize) ==
    IF basePixelSize <= 0 THEN {im}
    ELSE PixelChoices({im}, CellSeq(im.Dx, im.Dy),
            [p \in Cells(im.Dx, im.Dy) |->
                LET currentColor == im.Pix[p[1]][p[2]]
                    xm == GoMod(p[2], basePixelSize)
                    ym == GoMod(p[1], basePixelSize)
                    nearEdgeX == xm <= 1 \/ xm >= basePixelSize - 2
                    nearEdgeY == ym <= 1 \/ ym >= basePixelSize - 2
                    edgeDist == min(min(xm, basePixelSize - xm),
                                    min(ym, basePixelSize - ym))
                IN  IF nearEdgeX \/ nearEdgeY
                    THEN {currentColor} \cup
                         {LET v == adjustedVariation(variation, edgeDist)
                          IN  [R |-> clamp(currentColor.R + v, 0, 255),
                               G |-> clamp(currentColor.G + v, 0, 255),
                               B |-> clamp(currentColor.B + v, 0, 255),
                               A |-> 255] : variation \in EdgeVariationsRGBA}
                    ELSE {currentColor}])

(***************************************************************************)
(* GenerateFromImage: the colours sorted for the name, the name, the save. *)
(***************************************************************************)
ChannelSum(c) == c.R + c.G + c.B

\* sortColors: sort.Slice is not stable, so colours of equal sum end in any
\* order
sortColors(cols) ==
    {[i \in 1..Len(cols) |-> cols[perm[i]]] :
        perm \in {q \in PermSeqs(1..Len(cols)) :
                    \A i \in 1..(Len(cols) - 1) :
                        ChannelSum(cols[q[i]]) <= ChannelSum(cols[q[i + 1]])}}

HexDigits ==
    <<"0", "1", "2", "3", "4", "5", "6", "7", "8", "9",
      "a", "b", "c", "d", "e", "f">>

\* fmt.Sprintf("%02x%02x%02x", c.R, c.G, c.B)
rgbHex(c) ==
    <<HexDigits[(c.R \div 16) + 1], HexDigits[(c.R % 16) + 1],
      HexDigits[(c.G \div 16) + 1], HexDigits[(c.G % 16) + 1],
      HexDigits[(c.B \div 16) + 1], HexDigits[(c.B % 16) + 1]>>

\* fmt.Sprintf("gocamo_from_image_%s_%03d_%s_k%d_w%dx%d.png", ...): the
\* values the name is made of
ImageFileName(baseName, index, sorted, k, width, height) ==
    <<"from_image", baseName, index,
      [i \in 1..Len(sorted) |-> rgbHex(sorted[i])], k, width, height>>

(***************************************************************************)
(* GenerateFromImage as steps.  camo holds the input file: its base name,  *)
(* whether LoadImage can read it, and the image resizeAndCropImage makes   *)
(* of it, which has the configured width and height.  grid holds the       *)
(* enhanced image and colors the main colours.                             *)
(***************************************************************************)
\* gen.Generate up to the clustering: the block size is adjusted, the image
\* loaded, resized, pooled and filtered
ImageLoad ==
    /\ pc = "fromimage"
    /\ adjustedBasePixelSize' = AdjustBasePixelSize(cfg)
    /\ cfg' = [cfg EXCEPT !.BasePixelSize = BaseAfterAdjust(cfg)]
    /\ IF camo.readable
       THEN /\ grid' = laplacianFilter(
                          maxPooling(camo.resized, AdjustBasePixelSize(cfg)))
            /\ pc' = "loaded"
            /\ ret' = ret
       ELSE /\ ret' = "error generating pattern from image"
            /\ pc' = "done"
            /\ grid' = grid
    /\ UNCHANGED <<colors, requested, img, pass>>
    /\ UNCHANGED <<camo, files, poolVars, fnVars>>

\* mainColors := kMeansClustering(pixels, cfg.KValue, 100)
ImageCluster ==
    /\ pc = "loaded"
    /\ IF kMeansAborts(PixelsOf(grid), cfg.KValue)
       THEN pc' = "panic" /\ colors' = colors
       ELSE /\ colors' \in kMeansClustering(PixelsOf(grid), cfg.KValue,
                                            KMeansIterations)
            /\ pc' = "clustered"
    /\ UNCHANGED <<cfg, requested, adjustedBasePixelSize, grid, img, pass>>
    /\ UNCHANGED <<callVars, poolVars, fnVars>>

\* result := image.NewRGBA(...) and the rendering loop
ImageRender ==
    /\ pc = "clustered"
    /\ IF ImageRenderAborts(colors, cfg.Width, cfg.Height)
       THEN pc' = "panic" /\ img' = NewRGBA(cfg.Width, cfg.Height)
       ELSE /\ img' = ImageRenderPixels(grid, colors, cfg.Width, cfg.Height)
            /\ pc' = "imagerendered"
    /\ UNCHANGED <<cfg, colors, requested, adjustedBasePixelSize, grid, pass>>
    /\ UNCHANGED <<callVars, poolVars, fnVars>>

\* if cfg.AddNoise { addNoiseRGBA(result, mainColors) }
ImageNoise ==
    /\ pc = "imagerendered"
    /\ img' \in (IF cfg.AddNoise THEN addNoiseRGBA(img, colors) ELSE {img})
    /\ pc' = "imagenoised"
    /\ UNCHANGED <<cfg, colors, requested, adjustedBasePixelSize, grid, pass>>
    /\ UNCHANGED <<callVars, poolVars, fnVars>>

\* if cfg.AddEdge { addEdgeDetailsRGBA(result, adjustedBasePixelSize) }
\* return result, mainColors, nil
ImageEdge ==
    /\ pc = "imagenoised"
    /\ img' \in (IF cfg.AddEdge
                 THEN addEdgeDetailsRGBA(img, adjustedBasePixelSize) ELSE {img})
    /\ pc' = "imagereturned"
    /\ UNCHANGED <<cfg, colors, requested, adjustedBasePixelSize, grid, pass>>
    /\ UNCHANGED <<callVars, poolVars, fnVars>>

\* sortColors(mainColors), the name, saveImageToFile
ImageSave ==
    /\ pc = "imagereturned"
    /\ \E sorted \in sortColors(colors) :
          LET filePath == ImageFileName(camo.base, 0, sorted, cfg.KValue,
                                        cfg.Width, cfg.Height)
          IN  /\ colors' = sorted
              /\ \/ /\ ret' = "error saving image"
                    /\ files' = files
                 \/ /\ ret' = "error saving image"
                    /\ files' = {[path |-> filePath, content |-> "partial"]}
                 \/ /\ ~EncodeRejects(img)
                    /\ ret' = "nil"
                    /\ files' = {[path |-> filePath, content |-> img]}
    /\ pc' = "done"
    /\ UNCHANGED <<cfg, requested, adjustedBasePixelSize, grid, img, pass>>
    /\ UNCHANGED <<camo, poolVars, fnVars>>

(***************************************************************************)
(* SpecImage: one call of GenerateFromImage into an empty directory.       *)
(***************************************************************************)
MaxImgDim == 2      \* width and height range over 1..MaxImgDim
MaxK == 2           \* the -k value ranges over -1..MaxK

Dark == [R |-> 10, G |-> 20, B |-> 30, A |-> 255]
Light == [R |-> 200, G |-> 180, B |-> 160, A |-> 255]
Mid == [R |-> 100, G |-> 110, B |-> 90, A |-> 255]

\* the resized images: one pixel of any of three colours, or more pixels of
\* two
ResizedImages(w, h) ==
    {[Dx |-> w, Dy |-> h, Pix |-> pix] :
        pix \in [0..(h - 1) -> [0..(w - 1) ->
                    IF w * h = 1 THEN {Dark, Mid, Light} ELSE {Dark, Light}]]}

\* noise and edge details are switched on one at a time
ImageInputs ==
    {in \in [w : 1..MaxImgDim, h : 1..MaxImgDim, b : 1..MaxBlock,
             k : (-1)..MaxK, noise : BOOLEAN, edge : BOOLEAN,
             readable : BOOLEAN] :
        ~(in.noise /\ in.edge)}

ImageInit ==
    /\ \E in \in ImageInputs :
          /\ cfg = [MkConfig(in.w, in.h, in.b, "image", NilRatios)
                       EXCEPT !.KValue = in.k, !.AddNoise = in.noise,
                              !.AddEdge = in.edge]
          /\ \E resized \in ResizedImages(in.w, in.h) :
                camo = [base |-> "input", readable |-> in.readable,
                        resized |-> resized]
    /\ requested = cfg.BasePixelSize
    /\ colors = <<>>
    /\ adjustedBasePixelSize = 0
    /\ grid = <<>>
    /\ img = <<>>
    /\ pass = 0
    /\ pc = "fromimage"
    /\ ret = ""
    /\ files = {}
    /\ PoolIdle
    /\ FnIdle

ImageNext ==
    \/ ImageLoad \/ ImageCluster \/ ImageRender \/ ImageNoise \/ ImageEdge
    \/ ImageSave

SpecImage == ImageInit /\ [][ImageNext]_vars

\* C12: image generation with a cluster count below one is rejected as
\* invalid input: GenerateFromImage returns an error, and neither aborts nor
\* produces an image or a palette.
C12_SmallKRejected ==
    (camo.readable /\ cfg.KValue < 1) =>
        /\ pc # "panic"
        /\ pc = "done" => ret # "nil" /\ files = {}

(***************************************************************************)
(* SpecSelect: one call of selectWeightedColor or of                       *)
(* selectWeightedColorExcluding on a ratio vector of a bounded set, with   *)
(* vectors shorter and longer than the palette and of sum below, equal to  *)
(* and above 1.                                                            *)
(***************************************************************************)
MaxRatioLen == 3        \* ratio vectors have 0..MaxRatioLen entries
MaxWeight == 2          \* an entry is 0..MaxWeight over the denominator
MaxSelColors == 3       \* maxColors ranges over 0..MaxSelColors

SelDenominators == {2, 4}

RatioVectors ==
    UNION {[w : [1..n -> 0..MaxWeight], d : SelDenominators] :
              n \in 0..MaxRatioLen}

SelectIdle ==
    /\ cfg = MkConfig(0, 0, 0, "", NilRatios)
    /\ requested = 0 /\ adjustedBasePixelSize = 0
    /\ colors = <<>> /\ grid = <<>> /\ img = <<>> /\ pass = 0
    /\ CallIdle /\ PoolIdle

SelectInit ==
    /\ \E ratios \in RatioVectors, maxColors \in 0..MaxSelColors :
          \/ call = [fn |-> "selectWeightedColor", ratios |-> ratios,
                     excludeIndices |-> {}, maxColors |-> maxColors,
                     k |-> 0, result |-> 0]
          \/ \E excludeIndices \in SUBSET (0..MaxRatioLen) :
                call = [fn |-> "selectWeightedColorExcluding", ratios |-> ratios,
                        excludeIndices |-> excludeIndices,
                        maxColors |-> maxColors, k |-> 0, result |-> 0]
    /\ pc = "call"
    /\ SelectIdle

\* selectWeightedColor(ratios, maxColors) with the draw k
SelectWeighted ==
    /\ pc = "call"
    /\ call.fn = "selectWeightedColor"
    /\ \E k \in Draws(call.ratios) :
          call' = [call EXCEPT !.k = k,
                      !.result = selectWeightedColor(call.ratios, call.maxColors, k)]
    /\ pc' = "returned"
    /\ UNCHANGED <<cfg, colors, requested, adjustedBasePixelSize, grid, img, pass>>
    /\ UNCHANGED <<callVars, poolVars>>

\* selectWeightedColorExcluding(ratios, excludeIndices, maxColors) with the
\* draw k made by the call it delegates to
SelectExcluding ==
    /\ pc = "call"
    /\ call.fn = "selectWeightedColorExcluding"
    /\ \E k \in Draws(AdjustedRatios(call.ratios, call.excludeIndices,
                                     call.maxColors)) :
          call' = [call EXCEPT !.k = k,
                      !.result = selectWeightedColorExcluding(call.ratios,
                                    call.excludeIndices, call.maxColors, k)]
    /\ pc' = "returned"
    /\ UNCHANGED <<cfg, colors, requested, adjustedBasePixelSize, grid, img, pass>>
    /\ UNCHANGED <<callVars, poolVars>>

SelectNext == SelectWeighted \/ SelectExcluding

SpecSelect == SelectInit /\ [][SelectNext]_vars

\* twice the sum of the first i entries; the draw is r = k/(2d), so the
\* cumulative sum after entry i is >= r exactly when k <= Cumulative2(w, i)
RECURSIVE Cumulative2(_, _)
Cumulative2(w, i) == IF i = 0 THEN 0 ELSE 2 * w[i] + Cumulative2(w, i - 1)

C14_ExcludingIndex ==
    (pc = "returned" /\ call.fn = "selectWeightedColorExcluding"
        /\ call.maxColors >= 1) =>
        LET allowed == {i \in 0..(Len(call.ratios.w) - 1) :
                           i < call.maxColors /\ i \notin call.excludeIndices}
        IN  /\ allowed # {} => call.result \notin call.excludeIndices
            /\ allowed = {} => call.result = 0
            /\ call.result \in 0..(call.maxColors - 1)

\* index 0 is excluded, an index below N is not, and the call returns it
C14_Witness ==
    /\ pc = "returned" /\ call.fn = "selectWeightedColorExcluding"
    /\ 0 \in call.excludeIndices
    /\ Len(call.ratios.w) > call.maxColors
    /\ call.result > 0
    /\ call.result \notin call.excludeIndices

(***************************************************************************)
(* SpecSmooth: the neighbourhood votes and the smoothing passes on grids   *)
(* of a bounded set.  A vote is run twice on the same grid and cell, so    *)
(* that what it leaves to the map order and to the tie draws shows as two  *)
(* different selections; a pass is run up to MaxSmoothPasses times.        *)
(***************************************************************************)
MaxSmoothDim == 3       \* grids are up to MaxSmoothDim cells wide and high
MaxVoteCells == 4       \* a grid a vote is run on has that many cells at most
MaxSmoothPasses == 3    \* passes applied to one grid
VoteRuns == 2           \* runs of one vote that are compared

SmoothColors == 0..2

VoteGrids ==
    UNION {[(0..(d[2] - 1)) -> [(0..(d[1] - 1)) -> SmoothColors]] :
              d \in {e \in (1..MaxSmoothDim) \X (1..MaxSmoothDim) :
                        e[1] * e[2] <= MaxVoteCells}}

\* the grids of one colour, and those with one cell of another colour
SmoothGrids ==
    UNION {{[y \in 0..(d[2] - 1) |-> [x \in 0..(d[1] - 1) |->
                IF <<y, x>> = odd THEN b ELSE a]] :
               a \in SmoothColors, b \in SmoothColors,
               odd \in Cells(d[1], d[2])} :
           d \in (1..MaxSmoothDim) \X (1..MaxSmoothDim)}

GridWidth(g) == Cardinality(DOMAIN g[0])
GridHeight(g) == Cardinality(DOMAIN g)

Uniform(g) ==
    \A c \in Cells(GridWidth(g), GridHeight(g)) : g[c[1]][c[2]] = g[0][0]

SmoothInit ==
    /\ \/ \E g \in VoteGrids, fn \in {"pat3", "pat4", "pat5"}, r \in 1..2 :
            \E c \in Cells(GridWidth(g), GridHeight(g)) :
               /\ fn # "pat3" => r = 1
               /\ call = [op |-> "vote", fn |-> fn, start |-> g, grid |-> g,
                          y |-> c[1], x |-> c[2], neighborhoodSize |-> r,
                          selected |-> <<>>, passes |-> 0]
       \/ \E g \in SmoothGrids, fn \in {"pat1", "pat3", "pat4", "pat5"} :
            call = [op |-> "smooth", fn |-> fn, start |-> g, grid |-> g,
                    y |-> 0, x |-> 0, neighborhoodSize |-> 1,
                    selected |-> <<>>, passes |-> 0]
    /\ pc = "call"
    /\ SelectIdle

\* the colours the vote of a recipe can select for the cell of the call;
\* pat5 writes the dominant colour only when it was counted three times
Selections ==
    LET g == call.grid
        w == GridWidth(g)
        h == GridHeight(g)
        own == g[call.y][call.x]
    IN  IF call.fn = "pat5"
        THEN LET cnt == CrossCount(g, call.y, call.x, w, h)
             IN  IF MaxCount(cnt) >= 3 THEN VoteFirst(cnt, own) ELSE {own}
        ELSE VoteTie(WrapCount(g, call.y, call.x, call.neighborhoodSize, w, h),
                     own)

\* the tally and the loop over colorCount of pat3 (with the radius drawn)
\* and of pat4
VoteToroidal ==
    /\ pc = "call" /\ call.op = "vote" /\ call.fn \in {"pat3", "pat4"}
    /\ Len(call.selected) < VoteRuns
    /\ \E maxColor \in Selections :
          call' = [call EXCEPT !.selected = Append(@, maxColor)]
    /\ UNCHANGED <<genVars, callVars, poolVars>>

\* the tally and the loop over colorCounts of applyLightCellularAutomata
VoteLight ==
    /\ pc = "call" /\ call.op = "vote" /\ call.fn = "pat5"
    /\ Len(call.selected) < VoteRuns
    /\ \E dominantColor \in Selections :
          call' = [call EXCEPT !.selected = Append(@, dominantColor)]
    /\ UNCHANGED <<genVars, callVars, poolVars>>

\* the grids one smoothing pass of the recipe can make of g
SmoothPassGrids(fn, g) ==
    LET w == GridWidth(g)
        h == GridHeight(g)
    IN  IF fn = "pat1" THEN Pat1SmoothGrids(g, w, h)
        ELSE IF fn = "pat3" THEN Pat3PassGrids(g, w, h)
        ELSE IF fn = "pat4" THEN Pat4PassGrids(g, w, h)
        ELSE applyLightCellularAutomata(g, w, h)

\* the call after one more pass of the recipe fn, if it is a call of fn that
\* has passes left
SmoothedCalls(fn) ==
    IF call.op = "smooth" /\ call.fn = fn /\ call.passes < MaxSmoothPasses
    THEN {[call EXCEPT !.grid = g, !.passes = @ + 1] :
             g \in SmoothPassGrids(fn, call.grid)}
    ELSE {}

\* one pass of applyMilitarySmoothing
SmoothPat1 ==
    /\ pc = "call"
    /\ call' \in SmoothedCalls("pat1")
    /\ UNCHANGED <<genVars, callVars, poolVars>>

\* one iteration of the automaton of pat3
SmoothPat3 ==
    /\ pc = "call"
    /\ call' \in SmoothedCalls("pat3")
    /\ UNCHANGED <<genVars, callVars, poolVars>>

\* one iteration of the automaton of pat4
SmoothPat4 ==
    /\ pc = "call"
    /\ call' \in SmoothedCalls("pat4")
    /\ UNCHANGED <<genVars, callVars, poolVars>>

\* one call of applyLightCellularAutomata
SmoothPat5 ==
    /\ pc = "call"
    /\ call' \in SmoothedCalls("pat5")
    /\ UNCHANGED <<genVars, callVars, poolVars>>

SmoothNext ==
    \/ VoteToroidal \/ VoteLight
    \/ SmoothPat1 \/ SmoothPat3 \/ SmoothPat4 \/ SmoothPat5

SpecSmooth == SmoothInit /\ [][SmoothNext]_vars

\* C15: in every smoothing pass the colour selected for a cell is determined
\* solely by the tally of its neighbourhood: two runs of the vote on the same
\* grid and cell select the same colour, whatever the order in which the map
\* is visited and whatever the tie draws.
C15_TallyDecides ==
    (call.op = "vote" /\ Len(call.selected) = VoteRuns) =>
        call.selected[1] = call.selected[2]

\* C16: a smoothing pass of pat1, pat3, pat4 or pat5, applied any number of
\* times to a grid whose cells all hold the same colour index, leaves the
\* grid unchanged.
C16_UniformFixed ==
    (call.op = "smooth" /\ Uniform(call.start)) => call.grid = call.start

\* three passes were applied to a uniform grid with an interior cell
C16_Witness ==
    /\ call.op = "smooth" /\ Uniform(call.start)
    /\ call.passes = MaxSmoothPasses
    /\ GridWidth(call.start) >= 3 /\ GridHeight(call.start) >= 3
    /\ call.start[0][0] = 2
    /\ call.grid = call.start

\* the colours held by the cells of g
GridColors(g) == {g[c[1]][c[2]] : c \in Cells(GridWidth(g), GridHeight(g))}

\* the wrapped coordinates (y+dy+h)%h and (x+dx+w)%w over the radius of
\* the call
WrappedCoordinates ==
    {<<GoMod(call.y + d[1] + GridHeight(call.start), GridHeight(call.start)),
       GoMod(call.x + d[2] + GridWidth(call.start), GridWidth(call.start))>> :
        d \in ((-call.neighborhoodSize)..call.neighborhoodSize)
                 \X ((-call.neighborhoodSize)..call.neighborhoodSize)}

MaxTotal == 3       \* total ranges over 0..MaxTotal
MaxSent == 3        \* results the caller sends

ProgressBarWidth == 50

\* printProgressBar(done, total, width): filled = int(percent * width) with
\* percent = done/total; with total = 0 percent is +Inf (or NaN), the
\* conversion yields a value outside 0..width and strings.Repeat panics
printProgressBarPanics(completed, total, width) ==
    \/ total = 0
    \/ GoDiv(completed * width, total) < 0
    \/ GoDiv(completed * width, total) > width

TrackInit ==
    /\ \E total \in 0..MaxTotal :
          tracker = [pc |-> "recv", completed |-> 0, errors |-> 0,
                     total |-> total, printed |-> <<>>, done |-> <<>>]
    /\ results = [buf |-> <<>>, closed |-> FALSE]
    /\ main = [pc |-> "send", sent |-> 0]
    /\ jobs = <<>> /\ wg = 0 /\ workers = <<>> /\ gens = <<>>
    /\ heap = <<>> /\ hist = <<>>
    /\ cfg = MkConfig(0, 0, 0, "", NilRatios)
    /\ requested = 0 /\ adjustedBasePixelSize = 0
    /\ colors = <<>> /\ grid = <<>> /\ img = <<>> /\ pass = 0
    /\ pc = "track"
    /\ CallIdle
    /\ FnIdle

\* the caller: results <- result
TrackSend ==
    /\ pc = "track"
    /\ ~results.closed
    /\ main.sent < MaxSent
    /\ \E result \in {"nil", "error"} :
          results' = [results EXCEPT !.buf = Append(@, result)]
    /\ main' = [main EXCEPT !.sent = @ + 1]
    /\ UNCHANGED <<jobs, wg, workers, gens, tracker, heap, hist>>
    /\ UNCHANGED <<genVars, callVars, fnVars>>

\* the caller: close(results)
TrackClose ==
    /\ pc = "track"
    /\ ~results.closed
    /\ results' = [results EXCEPT !.closed = TRUE]
    /\ main' = [main EXCEPT !.pc = "closed"]
    /\ UNCHANGED <<jobs, wg, workers, gens, tracker, heap, hist>>
    /\ UNCHANGED <<genVars, callVars, fnVars>>

\* one iteration of "for result := range results": the result is counted and
\* the bar printed; with the last of total results a newline is printed and
\* the loop is left for the send on done
TrackResult ==
    /\ pc = "track"
    /\ tracker.pc = "recv"
    /\ results.buf # <<>>
    /\ LET result == Head(results.buf)
           errors == tracker.errors + (IF result # "nil" THEN 1 ELSE 0)
           completed == tracker.completed + 1
       IN  /\ results' = [results EXCEPT !.buf = Tail(@)]
           /\ IF printProgressBarPanics(completed, tracker.total, ProgressBarWidth)
              THEN tracker' = [tracker EXCEPT !.pc = "panic", !.errors = errors,
                                              !.completed = completed]
              ELSE tracker' =
                     [tracker EXCEPT
                        !.errors = errors, !.completed = completed,
                        !.printed =
                            IF completed = tracker.total
                            THEN @ \o <<<<"bar", completed, tracker.total>>,
                                        <<"newline">>>>
                            ELSE Append(@, <<"bar", completed, tracker.total>>),
                        !.pc = IF completed = tracker.total THEN "signal"
                               ELSE "recv"]
    /\ UNCHANGED <<jobs, wg, main, workers, gens, heap, hist>>
    /\ UNCHANGED <<genVars, callVars, fnVars>>

\* done <- true; return
TrackSignal ==
    /\ pc = "track"
    /\ tracker.pc = "signal"
    /\ tracker' = [tracker EXCEPT !.done = Append(@, TRUE), !.pc = "returned"]
    /\ UNCHANGED <<jobs, results, wg, main, workers, gens, heap, hist>>
    /\ UNCHANGED <<genVars, callVars, fnVars>>

\* the channel is closed and empty: the loop ends, the summary of the
\* failures or a newline is printed, the function returns
TrackEnd ==
    /\ pc = "track"
    /\ tracker.pc = "recv"
    /\ results.buf = <<>> /\ results.closed
    /\ tracker' =
          [tracker EXCEPT
             !.printed = Append(@, IF tracker.errors > 0
                                   THEN <<"failed", tracker.errors, tracker.total>>
                                   ELSE <<"newline">>),
             !.pc = "returned"]
    /\ UNCHANGED <<jobs, results, wg, main, workers, gens, heap, hist>>
    /\ UNCHANGED <<genVars, callVars, fnVars>>

TrackNext == TrackSend \/ TrackClose \/ TrackResult \/ TrackSignal \/ TrackEnd

SpecTrack == TrackInit /\ [][TrackNext]_vars

\* C17: when TrackProgress has received all `total` results and at least one
\* of them was an error, it has printed, by the time it returns, the summary
\* "<errors> out of <total> jobs failed" with the number of non-nil results.
C17_FailureSummary ==
    (/\ tracker.pc = "returned"
     /\ tracker.completed = tracker.total
     /\ tracker.errors >= 1) =>
        \E i \in 1..Len(tracker.printed) :
            tracker.printed[i] = <<"failed", tracker.errors, tracker.total>>

DecimalDigits == <<"0", "1", "2", "3", "4", "5", "6", "7", "8", "9">>

\* %d of a number that is not negative
RECURSIVE FormatDecimal(_)
FormatDecimal(n) ==
    IF n < 10 THEN DecimalDigits[n + 1]
    ELSE FormatDecimal(n \div 10) \o DecimalDigits[(n % 10) + 1]

\* %03d of a number that is not negative
FormatIndex(n) ==
    IF n < 10 THEN "00" \o FormatDecimal(n)
    ELSE IF n < 100 THEN "0" \o FormatDecimal(n)
    ELSE FormatDecimal(n)

\* strings.Join(parts, "_")
RECURSIVE JoinUnderscore(_)
JoinUnderscore(parts) ==
    IF parts = <<>> THEN ""
    ELSE IF Len(parts) = 1 THEN parts[1]
    ELSE parts[1] \o "_" \o JoinUnderscore(Tail(parts))

\* one strings.TrimPrefix(hex, "#") per colour, the values being kept as
\* text: a colour code is the text of its digits
ColorCode(hex) ==
    LET RECURSIVE text(_)
        text(cs) == IF cs = <<>> THEN "" ELSE Head(cs) \o text(Tail(cs))
    IN  text(StripHash(hex))

\* fmt.Sprintf("gocamo_%03d_%s_%s_%s_w%dx%d.png", index, camo.Name,
\* colorCodesStr, patternName, cfg.Width, cfg.Height), split at the
\* separators of camo.Name
PatternFileName(index, c, patternName, width, height) ==
    LET head == "gocamo_" \o FormatIndex(index) \o "_"
        tail == "_" \o JoinUnderscore([i \in 1..Len(c.Colors) |->
                                          ColorCode(c.Colors[i])])
                    \o "_" \o patternName \o "_w" \o FormatDecimal(width)
                    \o "x" \o FormatDecimal(height) \o ".png"
        n == Len(c.Name)
    IN  IF n = 1 THEN <<head \o c.Name[1] \o tail>>
        ELSE <<head \o c.Name[1]>> \o SubSeq(c.Name, 2, n - 1)
                 \o <<c.Name[n] \o tail>>

\* filepath.Clean of a rooted path: "." and empty parts are dropped, ".."
\* removes the part before it, and at the root is dropped
RECURSIVE CleanFrom(_, _)
CleanFrom(parts, kept) ==
    IF parts = <<>> THEN kept
    ELSE LET part == Head(parts)
         IN  IF part = "." \/ part = "" THEN CleanFrom(Tail(parts), kept)
             ELSE IF part = ".."
             THEN CleanFrom(Tail(parts),
                            IF kept = <<>> THEN kept
                            ELSE SubSeq(kept, 1, Len(kept) - 1))
             ELSE CleanFrom(Tail(parts), Append(kept, part))

\* filepath.Join(outputPath, fileName)
JoinPath(outputPath, fileName) == CleanFrom(outputPath \o fileName, <<>>)

(***************************************************************************)
(* SpecNames: run queues the jobs of a palette list, one at a time, and    *)
(* each job derives the path of its file.                                  *)
(***************************************************************************)
MaxPalettes == 2        \* palettes in the list

OutputAbsPath == <<"out">>

\* names as a JSON file can give them: plain, with an underscore and
\* digits, and with path separators
PaletteNames == {<<"y">>, <<"001_y">>, <<"x", "..", "gocamo_001_y">>}

NamedPalettes ==
    {[Name |-> name, Colors |-> <<HexRed, HexGreen>>] : name \in PaletteNames}

CamoLists ==
    UNION {[1..n -> NamedPalettes] : n \in 1..MaxPalettes}

NamesInit ==
    /\ \E camoList \in CamoLists, t \in {"pat1", "all"} :
          call = [camoList |-> camoList, PatternType |-> t, jobs |-> <<>>,
                  paths |-> <<>>]
    /\ pc = "queue"
    /\ SelectIdle

\* the jobs run sends, in the order of its loops: Index i for palette i, or
\* in "all" mode jobIndex counting over palettes and pattern types
QueuedJobs(camoList, t) ==
    IF t = "all"
    THEN [n \in 1..(Len(camoList) * Len(patternTypes)) |->
            [Camo |-> camoList[((n - 1) \div Len(patternTypes)) + 1],
             PatternType |-> patternTypes[((n - 1) % Len(patternTypes)) + 1],
             Index |-> n - 1]]
    ELSE [n \in 1..Len(camoList) |->
            [Camo |-> camoList[n], PatternType |-> t, Index |-> n - 1]]

\* jobs <- worker.Job{...}
NamesQueue ==
    /\ pc = "queue"
    /\ LET all == QueuedJobs(call.camoList, call.PatternType)
       IN  /\ Len(call.jobs) < Len(all)
           /\ call' = [call EXCEPT !.jobs = Append(@, all[Len(call.jobs) + 1])]
    /\ UNCHANGED <<genVars, callVars, poolVars>>

\* a job that was queued builds the path of its file
NamesDerive ==
    /\ pc = "queue"
    /\ Len(call.paths) < Len(call.jobs)
    /\ LET j == call.jobs[Len(call.paths) + 1]
       IN  call' = [call EXCEPT !.paths =
                        Append(@, JoinPath(OutputAbsPath,
                                      PatternFileName(j.Index, j.Camo,
                                          j.PatternType, 1, 1)))]
    /\ UNCHANGED <<genVars, callVars, poolVars>>

NamesNext == NamesQueue \/ NamesDerive

SpecNames == NamesInit /\ [][NamesNext]_vars

\* C19: the jobs queued by run carry pairwise distinct indices 0..J-1, also
\* across palettes and recipes in "all" mode, and jobs with distinct indices
\* derive distinct output paths, so no two jobs of a run write the same file.
C19_DistinctFiles ==
    /\ \A n \in 1..Len(call.jobs) : call.jobs[n].Index = n - 1
    /\ \A m \in 1..Len(call.paths) : \A n \in 1..Len(call.paths) :
          call.jobs[m].Index # call.jobs[n].Index => call.paths[m] # call.paths[n]

(***************************************************************************)
(* SpecGrow: growOrganicClusters on a small image.  A pixel is <<x, y>>;   *)
(* a seed has a position and a MaxSize.  The draws (the number of growth   *)
(* attempts, the direction, the growth itself, the tapering) are choices;  *)
(* the direction is any of the eight, which covers the preferred ones.     *)
(***************************************************************************)
MaxGrowDim == 2         \* the image is up to MaxGrowDim pixels wide and high
MaxSeeds == 2           \* seeds of one call
MaxClusterSize == 4     \* seed.MaxSize ranges over 1..MaxClusterSize
MinGrowthAttempts == 2
MaxGrowthAttempts == 5

directions ==
    <<<<-1, -1>>, <<0, -1>>, <<1, -1>>, <<-1, 0>>, <<1, 0>>,
      <<-1, 1>>, <<0, 1>>, <<1, 1>>>>

\* a growth loop that never looks at the size of the cluster
GrowthAllowed_Unbounded(pixels, seed) == TRUE

\* len(cluster.Pixels) < seed.MaxSize, the condition of both growth loops
GrowthAllowed(pixels, seed) == Len(pixels) < seed.MaxSize

GrowSeeds(w, h) ==
    [X : 0..(w - 1), Y : 0..(h - 1), MaxSize : 1..MaxClusterSize]

\* getClusterBlockType(maxSize, basePixelSize): the ratio of the two as
\* float64, +Inf or NaN when basePixelSize is 0
getClusterBlockType(maxSize, basePixelSize) ==
    LET above(n) == IF basePixelSize > 0 THEN maxSize > n * basePixelSize
                    ELSE IF basePixelSize < 0 THEN maxSize < n * basePixelSize
                    ELSE maxSize > 0
    IN  IF above(20) THEN "large"
        ELSE IF above(8) THEN "medium"
        ELSE IF above(3) THEN "small"
        ELSE "detail"

GrowInit ==
    /\ \E w \in 1..MaxGrowDim, h \in 1..MaxGrowDim, n \in 1..MaxSeeds :
          \E seeds \in [1..n -> GrowSeeds(w, h)] :
             call = [imgWidth |-> w, imgHeight |-> h, seeds |-> seeds,
                     basePixelSize |-> 1, BlockType |-> "",
                     s |-> 1, at |-> "seed", Pixels |-> <<>>,
                     activePixels |-> <<>>, newActivePixels |-> <<>>,
                     a |-> 0, attempt |-> 0, growthAttempts |-> 0,
                     occupiedPixels |-> {}, clusters |-> <<>>]
    /\ pc = "grow"
    /\ SelectIdle

\* for _, seed := range seeds: the cluster starts with the seed pixel; after
\* the last seed the clusters are returned
GrowSeed ==
    /\ pc = "grow" /\ call.at = "seed"
    /\ IF call.s > Len(call.seeds)
       THEN call' = [call EXCEPT !.at = "returned"]
       ELSE LET seed == call.seeds[call.s]
            IN  call' = [call EXCEPT
                            !.BlockType = getClusterBlockType(
                                              seed.MaxSize, call.basePixelSize),
                            !.Pixels = <<<<seed.X, seed.Y>>>>,
                            !.activePixels = <<<<seed.X, seed.Y>>>>,
                            !.occupiedPixels = @ \cup {<<seed.X, seed.Y>>},
                            !.at = "grow"]
    /\ UNCHANGED <<genVars, callVars, poolVars>>

\* for len(activePixels) > 0 && len(cluster.Pixels) < seed.MaxSize: a round
\* begins, or the cluster is finished and appended
GrowRound ==
    /\ pc = "grow" /\ call.at = "grow"
    /\ IF Len(call.activePixels) > 0
          /\ GrowthAllowed(call.Pixels, call.seeds[call.s])
       THEN call' = [call EXCEPT !.newActivePixels = <<>>, !.a = 1,
                                 !.at = "active"]
       ELSE call' = [call EXCEPT
                        !.clusters = Append(@, [Pixels |-> call.Pixels,
                                                BlockType |-> call.BlockType,
                                                seed |-> call.seeds[call.s]]),
                        !.Pixels = <<>>, !.activePixels = <<>>,
                        !.s = @ + 1, !.at = "seed"]
    /\ UNCHANGED <<genVars, callVars, poolVars>>

\* for _, activePixel := range activePixels: the attempts of the next active
\* pixel are drawn; after the last one the new pixels become the active
\* ones, and may be cut to their first half
GrowActive ==
    /\ pc = "grow" /\ call.at = "active"
    /\ IF call.a <= Len(call.activePixels)
       THEN \E growthAttempts \in MinGrowthAttempts..MaxGrowthAttempts :
               call' = [call EXCEPT !.growthAttempts = growthAttempts,
                                    !.attempt = 0, !.at = "attempt"]
       ELSE \/ call' = [call EXCEPT !.activePixels = call.newActivePixels,
                                    !.newActivePixels = <<>>, !.at = "grow"]
            \/ /\ Len(call.newActivePixels) > 1
               /\ call' = [call EXCEPT
                             !.activePixels =
                                 SubSeq(call.newActivePixels, 1,
                                        GoDiv(Len(call.newActivePixels), 2)),
                             !.newActivePixels = <<>>, !.at = "grow"]
    /\ UNCHANGED <<genVars, callVars, poolVars>>

\* one growth attempt: a direction is drawn; a pixel outside the image or
\* occupied is skipped; otherwise the pixel is added or not
GrowAttempt ==
    /\ pc = "grow" /\ call.at = "attempt"
    /\ IF call.attempt < call.growthAttempts
          /\ GrowthAllowed(call.Pixels, call.seeds[call.s])
       THEN \E d \in 1..Len(directions) :
               LET activePixel == call.activePixels[call.a]
                   newX == activePixel[1] + directions[d][1]
                   newY == activePixel[2] + directions[d][2]
                   skipped == [call EXCEPT !.attempt = @ + 1]
               IN  IF \/ newX < 0 \/ newX >= call.imgWidth
                      \/ newY < 0 \/ newY >= call.imgHeight
                      \/ <<newX, newY>> \in call.occupiedPixels
                   THEN call' = skipped
                   ELSE \/ call' = skipped
                        \/ call' = [skipped EXCEPT
                                      !.Pixels = Append(@, <<newX, newY>>),
                                      !.newActivePixels = Append(@, <<newX, newY>>),
                                      !.occupiedPixels = @ \cup {<<newX, newY>>}]
       ELSE call' = [call EXCEPT !.a = @ + 1, !.at = "active"]
    /\ UNCHANGED <<genVars, callVars, poolVars>>

GrowNext == GrowSeed \/ GrowRound \/ GrowActive \/ GrowAttempt

SpecGrow == GrowInit /\ [][GrowNext]_vars

\* C20: every cluster of growOrganicClusters has at most seed.MaxSize
\* pixels, for every seed with MaxSize >= 1, at every point of the growth
\* and when the cluster is finished.
C20_ClusterSize ==
    /\ (call.at \in {"grow", "active", "attempt"}
           /\ call.seeds[call.s].MaxSize >= 1) =>
          Len(call.Pixels) <= call.seeds[call.s].MaxSize
    /\ \A i \in 1..Len(call.clusters) :
          call.clusters[i].seed.MaxSize >= 1 =>
             Len(call.clusters[i].Pixels) <= call.clusters[i].seed.MaxSize

\* a cluster grew from its seed pixel to its full size and was finished
C20_Witness ==
    \E i \in 1..Len(call.clusters) :
       /\ call.clusters[i].seed.MaxSize = MaxClusterSize
       /\ Len(call.clusters[i].Pixels) = MaxClusterSize

\* C29: the block type attached to each finished cluster is derived from
\* the final pixel count of that cluster divided by the base block size:
\* above 20 large, above 8 medium, above 3 small, otherwise detail.
C29_BlockTypeOfFinalSize ==
    \A i \in 1..Len(call.clusters) :
        call.clusters[i].BlockType
            = getClusterBlockType(Len(call.clusters[i].Pixels), call.basePixelSize)

(***************************************************************************)
(* SpecTemplates: applyTemplatesGreedy with the templates of               *)
(* createRectangularTemplates on grids that give it one attempt.  A matrix *)
(* row is a sequence of 1 (true) and 0 (false).                            *)
(***************************************************************************)
createTemplate(width, height, pattern) ==
    [Width |-> width, Height |-> height,
     Matrix |-> [ty \in 0..(height - 1) |-> [tx \in 0..(width - 1) |->
                    IF tx + 1 <= Len(pattern[ty + 1])
                    THEN pattern[ty + 1][tx + 1] = 1 ELSE FALSE]]]

createRectangularTemplates ==
    <<createTemplate(3, 3, <<<<1, 1, 1>>, <<1, 0, 1>>, <<1, 1, 1>>>>),
      createTemplate(4, 4, <<<<1, 1, 0, 0>>, <<1, 1, 0, 0>>,
                             <<0, 0, 1, 1>>, <<0, 0, 1, 1>>>>),
      createTemplate(6, 3, <<<<1, 1, 1, 0, 0, 0>>, <<1, 1, 1, 0, 0, 0>>,
                             <<0, 0, 0, 1, 1, 1>>>>),
      createTemplate(8, 2, <<<<1, 1, 1, 1, 0, 0, 0, 0>>,
                             <<0, 0, 0, 0, 1, 1, 1, 1>>>>),
      createTemplate(4, 2, <<<<1, 0, 1, 0>>, <<0, 1, 0, 1>>>>),
      createTemplate(2, 6, <<<<1, 0>>, <<1, 0>>, <<0, 1>>, <<0, 1>>,
                             <<1, 0>>, <<1, 0>>>>),
      createTemplate(3, 4, <<<<1, 0, 1>>, <<0, 1, 0>>, <<1, 0, 1>>,
                             <<0, 1, 0>>>>),
      createTemplate(2, 2, <<<<1, 0>>, <<0, 1>>>>),
      createTemplate(3, 3, <<<<0, 1, 0>>, <<1, 1, 1>>, <<0, 1, 0>>>>),
      createTemplate(5, 3, <<<<1, 0, 1, 0, 1>>, <<0, 1, 1, 1, 0>>,
                             <<1, 0, 0, 0, 1>>>>),
      createTemplate(3, 5, <<<<1, 0, 1>>, <<0, 1, 0>>, <<1, 1, 1>>,
                             <<0, 1, 0>>, <<1, 0, 1>>>>),
      createTemplate(6, 1, <<<<1, 0, 1, 0, 1, 0>>>>),
      createTemplate(1, 6, <<<<1>>, <<0>>, <<1>>, <<0>>, <<1>>, <<0>>>>)>>

AttemptsDivisor == 15

\* start positions drawn over the whole side of the grid
StartPositions_WholeSide(size, templateSize) == 0..(size - 1)

\* rand.Intn(size - templateSize + 1)
StartPositions(size, templateSize) == 0..(size - templateSize)

\* the cells of the template's matrix that are true, placed at the start
TemplateCells(template, startX, startY) ==
    {<<startY + c[1], startX + c[2]>> :
        c \in {d \in Cells(template.Width, template.Height) :
                  template.Matrix[d[1]][d[2]]}}

\* used[startY+ty][startX+tx] and grid[y][x] are index expressions: a cell
\* outside the grid aborts the call
TemplateAborts(template, startX, startY, width, height) ==
    \E c \in TemplateCells(template, startX, startY) : c \notin Cells(width, height)

\* canPlaceTemplate with the tolerance 0.3: overlapCount / totalCells <= 0.3
canPlaceTemplate(used, template, startX, startY) ==
    LET cells == TemplateCells(template, startX, startY)
        totalCells == Cardinality(cells)
        overlapCount == Cardinality({c \in cells : used[c[1]][c[2]]})
    IN  totalCells # 0 /\ 10 * overlapCount <= 3 * totalCells

\* the ratios of the three kinds of template
TemplateRatios(template) ==
    IF template.Width > template.Height
    THEN [w |-> <<50, 30, 15, 5>>, d |-> 100]
    ELSE IF template.Height > template.Width
    THEN [w |-> <<20, 30, 30, 20>>, d |-> 100]
    ELSE [w |-> <<40, 30, 20, 10>>, d |-> 100]

MaxTemplateGrid == 5    \* a grid side ranges over 3..MaxTemplateGrid

\* grids of 15 to 29 cells, for which attempts is 1
TemplateGridSizes ==
    {d \in (3..MaxTemplateGrid) \X (3..MaxTemplateGrid) :
        GoDiv(d[1] * d[2], AttemptsDivisor) = 1}

TemplatesInit ==
    /\ \E d \in TemplateGridSizes :
          call = [width |-> d[1], height |-> d[2], numColors |-> 2,
                  grid |-> NewGrid(d[1], d[2]),
                  used |-> [y \in 0..(d[2] - 1) |-> [x \in 0..(d[1] - 1) |-> FALSE]],
                  attempts |-> GoDiv(d[1] * d[2], AttemptsDivisor),
                  attempt |-> 0, placed |-> <<>>, at |-> "attempt"]
    /\ pc = "templates"
    /\ SelectIdle

\* one iteration of the loop for a template too large for the grid
TemplateSkip ==
    /\ pc = "templates" /\ call.at = "attempt"
    /\ call.attempt < call.attempts
    /\ \E t \in 1..Len(createRectangularTemplates) :
          LET template == createRectangularTemplates[t]
          IN  template.Width > call.width \/ template.Height > call.height
    /\ call' = [call EXCEPT !.attempt = @ + 1]
    /\ UNCHANGED <<genVars, callVars, poolVars>>

\* one iteration of the loop for a template that fits: the start is drawn,
\* canPlaceTemplate asked and the template placed, each true cell of it
\* being written or not
TemplatePlace ==
    /\ pc = "templates" /\ call.at = "attempt"
    /\ call.attempt < call.attempts
    /\ \E t \in 1..Len(createRectangularTemplates) :
          LET template == createRectangularTemplates[t]
          IN  /\ ~(template.Width > call.width \/ template.Height > call.height)
              /\ \E startY \in StartPositions(call.height, template.Height),
                    startX \in StartPositions(call.width, template.Width) :
                    IF TemplateAborts(template, startX, startY, call.width,
                                      call.height)
                    THEN call' = [call EXCEPT !.at = "panic"]
                    ELSE IF ~canPlaceTemplate(call.used, template, startX, startY)
                    THEN call' = [call EXCEPT !.attempt = @ + 1]
                    ELSE \E colorIdx \in WeightedColors(TemplateRatios(template),
                                                        call.numColors),
                            written \in SUBSET TemplateCells(template, startX, startY) :
                            call' = [call EXCEPT
                                !.grid = [y \in DOMAIN call.grid |->
                                            [x \in DOMAIN call.grid[y] |->
                                               IF <<y, x>> \in written
                                               THEN colorIdx ELSE call.grid[y][x]]],
                                !.used = [y \in DOMAIN call.used |->
                                            [x \in DOMAIN call.used[y] |->
                                               <<y, x>> \in written \/ call.used[y][x]]],
                                !.placed = Append(@, [template |-> template,
                                                      startX |-> startX,
                                                      startY |-> startY,
                                                      written |-> written]),
                                !.attempt = @ + 1]
    /\ UNCHANGED <<genVars, callVars, poolVars>>

\* the loop ends
TemplatesReturn ==
    /\ pc = "templates" /\ call.at = "attempt"
    /\ call.attempt >= call.attempts
    /\ call' = [call EXCEPT !.at = "returned"]
    /\ UNCHANGED <<genVars, callVars, poolVars>>

TemplatesNext == TemplateSkip \/ TemplatePlace \/ TemplatesReturn

SpecTemplates == TemplatesInit /\ [][TemplatesNext]_vars

\* C21: every placement applyTemplatesGreedy accepts lies inside the grid:
\* 0 <= startX, startX + template width <= grid width, 0 <= startY,
\* startY + template height <= grid height; every cell written is a grid
\* cell, no access leaves the grid, and a template wider or taller than the
\* grid is never placed.
C21_PlacementInside ==
    /\ call.at # "panic"
    /\ \A i \in 1..Len(call.placed) :
          LET p == call.placed[i]
          IN  /\ 0 <= p.startX /\ p.startX + p.template.Width <= call.width
              /\ 0 <= p.startY /\ p.startY + p.template.Height <= call.height
              /\ p.written \subseteq Cells(call.width, call.height)
              /\ p.template.Width <= call.width
              /\ p.template.Height <= call.height

\* a template as wide as the grid was placed against the lower border
C21_Witness ==
    \E i \in 1..Len(call.placed) :
       LET p == call.placed[i]
       IN  /\ p.template.Width = call.width
           /\ p.startY + p.template.Height = call.height /\ p.startY > 0
           /\ p.written # {}

(***************************************************************************)
(* SpecQuadrants: kMeansClustering with the default k, 4, on the pixels of an image of *)
(* four equal quadrants, each of one colour, the four colours distinct.    *)
(***************************************************************************)
MaxQuadrant == 1    \* the side of a quadrant ranges over 1..MaxQuadrant

Warm == [R |-> 220, G |-> 40, B |-> 90, A |-> 255]

\* the image of four quadrants of side q with the colours cols[1..4]
QuadrantImage(q, cols) ==
    [Dx |-> 2 * q, Dy |-> 2 * q,
     Pix |-> [y \in 0..(2 * q - 1) |-> [x \in 0..(2 * q - 1) |->
                cols[1 + GoDiv(x, q) + 2 * GoDiv(y, q)]]]]

\* the four colours in every order for the smallest image, in one order for
\* the larger ones
QuadrantInputs ==
    {QuadrantImage(1, cols) :
        cols \in {c \in [1..4 -> {Dark, Mid, Light, Warm}] :
                     \A i, j \in 1..4 : c[i] = c[j] => i = j}}
    \cup {QuadrantImage(q, <<Dark, Mid, Light, Warm>>) : q \in 2..MaxQuadrant}

QuadrantsInit ==
    /\ \E im \in QuadrantInputs :
          call = [image |-> im, pixels |-> PixelsOf(im), k |-> DefaultKValue,
                  first |-> <<>>, result |-> <<>>, at |-> "call"]
    /\ pc = "quadrants"
    /\ SelectIdle

\* the call: the first centroids are drawn, the iterations run and the
\* centroids are converted
QuadrantsCluster ==
    /\ pc = "quadrants" /\ call.at = "call"
    /\ \E first \in [1..call.k -> 1..Len(call.pixels)] :
          call' = [call EXCEPT
                      !.first = first,
                      !.result = kMeansFrom(call.pixels, call.k,
                                            KMeansIterations, first),
                      !.at = "returned"]
    /\ UNCHANGED <<genVars, callVars, poolVars>>

QuadrantsNext == QuadrantsCluster

SpecQuadrants == QuadrantsInit /\ [][QuadrantsNext]_vars

\* C22: k-means with k = 4 on an image of four equal quadrants of four
\* distinct flat colours returns, for every draw of the first centroids,
\* the four quadrant colours as its four centroids, in some order.
C22_QuadrantColours ==
    call.at = "returned" =>
        {call.result[i] : i \in 1..Len(call.result)}
            = {call.pixels[i] : i \in 1..Len(call.pixels)}

(***************************************************************************)
(* SpecPasses: addNoiseNRGBA and addEdgeDetailsNRGBA with their draws      *)
(* written down, applied to one buffer in both orders.  noise[p] is 0 when *)
(* rand.Float32() < 0.05 fails at pixel p and else the index of the colour *)
(* drawn; edge[p].on is the outcome of rand.Float32() < 0.4 and edge[p].d  *)
(* the three draws rand.Intn(41) - 20.                                     *)
(***************************************************************************)
\* the noise pass blending every pixel, whatever the first draw is
addNoiseWith_Everywhere(im, cols, noise) ==
    [im EXCEPT !.Pix = [y \in DOMAIN im.Pix |-> [x \in DOMAIN im.Pix[y] |->
        LET currentColor == im.Pix[y][x]
            noiseColor == cols[IF noise[<<y, x>>] = 0 THEN 1 ELSE noise[<<y, x>>]]
        IN  NRGBAModel([R |-> GoDiv(currentColor.R + noiseColor.R, 2),
                        G |-> GoDiv(currentColor.G + noiseColor.G, 2),
                        B |-> GoDiv(currentColor.B + noiseColor.B, 2),
                        A |-> 255])]]]

\* addNoiseNRGBA(img, colors) with the draws noise
addNoiseWith(im, cols, noise) ==
    IF Len(cols) = 0 THEN im
    ELSE [im EXCEPT !.Pix = [y \in DOMAIN im.Pix |-> [x \in DOMAIN im.Pix[y] |->
            LET currentColor == im.Pix[y][x]
                noiseColor == cols[noise[<<y, x>>]]
            IN  IF noise[<<y, x>>] = 0 THEN currentColor
                ELSE NRGBAModel([R |-> GoDiv(currentColor.R + noiseColor.R, 2),
                                 G |-> GoDiv(currentColor.G + noiseColor.G, 2),
                                 B |-> GoDiv(currentColor.B + noiseColor.B, 2),
                                 A |-> 255])]]]

\* x%basePixelSize == 0 || y%basePixelSize == 0
OnBlockEdge(p, basePixelSize) ==
    GoMod(p[2], basePixelSize) = 0 \/ GoMod(p[1], basePixelSize) = 0

\* addEdgeDetailsNRGBA(img, basePixelSize) with the draws edge
addEdgeWith(im, basePixelSize, edge) ==
    IF basePixelSize <= 0 THEN im
    ELSE [im EXCEPT !.Pix = [y \in DOMAIN im.Pix |-> [x \in DOMAIN im.Pix[y] |->
            LET currentColor == im.Pix[y][x]
                e == edge[<<y, x>>]
            IN  IF OnBlockEdge(<<y, x>>, basePixelSize) /\ e.on
                THEN NRGBAModel([R |-> clamp(currentColor.R + e.d[1], 0, 255),
                                 G |-> clamp(currentColor.G + e.d[2], 0, 255),
                                 B |-> clamp(currentColor.B + e.d[3], 0, 255),
                                 A |-> 255])
                ELSE currentColor]]]

MaxPassPixels == 2      \* buffers have at most MaxPassPixels pixels

\* buffers as a renderer leaves them: every pixel a palette colour
PassBuffers ==
    UNION {{[Dx |-> d[1], Dy |-> d[2], Pix |-> pix] :
               pix \in [0..(d[2] - 1) -> [0..(d[1] - 1) -> {Dark, Light}]]} :
           d \in {e \in (1..MaxPassPixels) \X (1..MaxPassPixels) :
                     e[1] * e[2] <= MaxPassPixels}}

\* the draws of the edge pass at one pixel
EdgeDraws ==
    {[on |-> FALSE, d |-> <<0, 0, 0>>]}
    \cup {[on |-> TRUE, d |-> <<dr, dg, db>>] :
             dr \in EdgeVariations, dg \in EdgeVariations, db \in EdgeVariations}

PassesInit ==
    /\ \E im \in PassBuffers, b \in 1..MaxBlock :
          call = [img |-> im, colors |-> <<Dark, Light>>, basePixelSize |-> b,
                  noise |-> <<>>, edge |-> <<>>,
                  noiseEdge |-> <<>>, edgeNoise |-> <<>>, done |-> {}]
    /\ pc = "passes"
    /\ SelectIdle

\* the random choices of the two passes are fixed
PassesDraw ==
    /\ pc = "passes" /\ call.done = {}
    /\ \E noise \in [Cells(call.img.Dx, call.img.Dy) -> 0..Len(call.colors)],
          edge \in [Cells(call.img.Dx, call.img.Dy) -> EdgeDraws] :
          call' = [call EXCEPT !.noise = noise, !.edge = edge, !.done = {"draw"}]
    /\ UNCHANGED <<genVars, callVars, poolVars>>

\* the order of Generate: addNoiseNRGBA, then addEdgeDetailsNRGBA
PassesNoiseEdge ==
    /\ pc = "passes" /\ "draw" \in call.done /\ "noiseEdge" \notin call.done
    /\ call' = [call EXCEPT
           !.noiseEdge = addEdgeWith(addNoiseWith(call.img, call.colors, call.noise),
                                     call.basePixelSize, call.edge),
           !.done = @ \cup {"noiseEdge"}]
    /\ UNCHANGED <<genVars, callVars, poolVars>>

\* the other order: addEdgeDetailsNRGBA, then addNoiseNRGBA
PassesEdgeNoise ==
    /\ pc = "passes" /\ "draw" \in call.done /\ "edgeNoise" \notin call.done
    /\ call' = [call EXCEPT
           !.edgeNoise = addNoiseWith(addEdgeWith(call.img, call.basePixelSize,
                                                  call.edge),
                                      call.colors, call.noise),
           !.done = @ \cup {"edgeNoise"}]
    /\ UNCHANGED <<genVars, callVars, poolVars>>

PassesNext == PassesDraw \/ PassesNoiseEdge \/ PassesEdgeNoise

SpecPasses == PassesInit /\ [][PassesNext]_vars

PassesBothDone == {"noiseEdge", "edgeNoise"} \subseteq call.done

\* the pixels each pass changes by its draws
NoiseDrawn == {p \in DOMAIN call.noise : call.noise[p] # 0}
EdgeDrawn ==
    {p \in DOMAIN call.edge :
        OnBlockEdge(p, call.basePixelSize) /\ call.edge[p].on}

MaxIndexColors == 3     \* palettes have 2..MaxIndexColors colours
MaxIndexCells == 4      \* grids have at most MaxIndexCells cells

\* the vector SetColorRatios leaves for a palette of l colours, nil for 0
RatiosOfLength(l) == IF l = 0 THEN NilRatios ELSE EqualRatios(l)

\* small grids with every palette size and every length of the ratios, and
\* the grids on which the later passes of pat1, pat2 and pat5 write cells,
\* with a ratio vector longer than the palette
IndexInputs ==
    {in \in [t : Recipes, w : 1..MaxDim, h : 1..MaxDim,
             n : 2..MaxIndexColors, l : 0..MaxRatioLen] :
        in.w * in.h <= MaxIndexCells}
    \cup {[t |-> "pat1", w |-> d[1], h |-> d[2], n |-> 2, l |-> MaxRatioLen] :
             d \in Pat1Strips}
    \cup {[t |-> "pat2", w |-> d[1], h |-> d[2], n |-> 2, l |-> MaxRatioLen] :
             d \in Pat2Strips}
    \cup {[t |-> "pat5", w |-> d[1], h |-> d[2], n |-> 2, l |-> MaxRatioLen] :
             d \in Pat5Strips}

IndicesInit ==
    /\ \E in \in IndexInputs :
          /\ cfg = MkConfig(in.w, in.h, 1, in.t, RatiosOfLength(in.l))
          /\ colors = Palette(in.n)
    /\ requested = cfg.BasePixelSize
    /\ adjustedBasePixelSize = 0
    /\ grid = <<>>
    /\ img = <<>>
    /\ pass = 0
    /\ pc = "call"
    /\ CallIdle
    /\ PoolIdle
    /\ FnIdle

\* addColorTransitions on its own: the grids with an interior cell, the
\* cells it never reads left at 0
TransitionGrids(numColors) ==
    {[y \in 0..2 |-> [x \in 0..2 |->
         IF x = 1 \/ y = 1 THEN v[<<y, x>>] ELSE 0]] :
        v \in [{c \in Cells(3, 3) : c[1] = 1 \/ c[2] = 1} -> 0..(numColors - 1)]}

TransitionsInit ==
    /\ \E n \in 2..MaxIndexColors :
          /\ colors = Palette(n)
          /\ grid \in TransitionGrids(n)
    /\ cfg = MkConfig(3, 3, 1, "pat2", NilRatios)
    /\ requested = 1
    /\ adjustedBasePixelSize = 1
    /\ img = <<>>
    /\ pass = 0
    /\ pc = "addColorTransitions"
    /\ CallIdle
    /\ PoolIdle
    /\ FnIdle

\* pg.addColorTransitions(grid, 3, 3, colors, cfg)
ColorTransitions ==
    /\ pc = "addColorTransitions"
    /\ grid' \in addColorTransitions({grid}, InteriorSeq(3, 3), Len(colors))
    /\ pc' = "transitioned"
    /\ UNCHANGED <<cfg, colors, requested, adjustedBasePixelSize, img, pass>>
    /\ UNCHANGED <<callVars, poolVars, fnVars>>

IndicesStart == IndicesInit \/ TransitionsInit

IndicesNext == GenNext \/ ColorTransitions

SpecIndices == IndicesStart /\ [][IndicesNext]_vars

MaxCentroids == 3       \* mainColors has 1..MaxCentroids entries

Grey(v) == [R |-> v, G |-> v, B |-> v, A |-> 255]

RenderCentroids == {Grey(100), Grey(140), Grey(220)}

RenderPixels == {Grey(100), Grey(118), Grey(125), Grey(150), Grey(215)}

RenderInit ==
    /\ \E n \in 1..MaxCentroids :
          \E mainColors \in {m \in [1..n -> RenderCentroids] :
                                \A i, j \in 1..n : m[i] = m[j] => i = j},
             pixel \in RenderPixels :
             call = [pixel |-> pixel, mainColors |-> mainColors,
                     found |-> <<>>, out |-> <<>>, at |-> "pixel"]
    /\ pc = "render"
    /\ SelectIdle

\* one pass of the loop body: the two colours are found and the colour
\* given to result.Set is computed
RenderPixel ==
    /\ pc = "render" /\ call.at = "pixel"
    /\ call' = [call EXCEPT
                   !.found = Nearest(call.pixel, call.mainColors),
                   !.out = RenderedColor(call.pixel, call.mainColors),
                   !.at = "set"]
    /\ UNCHANGED <<genVars, callVars, poolVars>>

RenderNext == RenderPixel

SpecRender == RenderInit /\ [][RenderNext]_vars

\* the centroid at index i is a nearest one, the centroid at index j a
\* nearest one of the others (j = i when there is only one centroid)
NearestAndSecond(pixel, mainColors, i, j) ==
    LET d(l) == colorDistance2(pixel, mainColors[l])
        k == Len(mainColors)
    IN  /\ \A l \in 1..k : d(i) <= d(l)
        /\ IF k >= 2
           THEN j # i /\ \A l \in (1..k) \ {i} : d(j) <= d(l)
           ELSE j = i

\* the colour the rule gives for the pair of centroids at i and j
BlendOfPair(pixel, mainColors, i, j) ==
    LET pair == [closestColor |-> mainColors[i],
                 minDistance |-> colorDistance2(pixel, mainColors[i]),
                 secondClosest |-> mainColors[j],
                 secondDistance |-> colorDistance2(pixel, mainColors[j])]
    IN  IF SoftBlend(pair)
        THEN [R |-> BlendChannel(pair.closestColor.R, pair.secondClosest.R, pair),
              G |-> BlendChannel(pair.closestColor.G, pair.secondClosest.G, pair),
              B |-> BlendChannel(pair.closestColor.B, pair.secondClosest.B, pair),
              A |-> 255]
        ELSE pair.closestColor

\* C28: for every output pixel the two colours considered are the nearest
\* and the second-nearest centroid (two different centroids when k >= 2),
\* wherever the nearest centroid stands in the list; the pixel is the
\* nearest centroid unless the two distances differ by less than 30 and
\* the nearest distance exceeds 10, and then a blend of exactly those two.
C28_NearestAndSecondBlend ==
    call.at = "set" =>
        \E i, j \in 1..Len(call.mainColors) :
            /\ NearestAndSecond(call.pixel, call.mainColors, i, j)
            /\ call.found.closestColor = call.mainColors[i]
            /\ call.found.secondClosest = call.mainColors[j]
            /\ call.out = BlendOfPair(call.pixel, call.mainColors, i, j)

====
